---- MODULE Spec2Model ----
(***************************************************************************)
(* Model of the Snap/0.4 HTTP/HTTPS server (src/src).                      *)
(*                                                                         *)
(* The specifications of this module:                                      *)
(*   Spec / LiveSpec : the acceptor loop of main() driving the worker pool *)
(*                     of thread_pool.c (queue, workers, wait, destroy,    *)
(*                     catalog refresh and shutdown).                      *)
(*   PipeSpec        : the request pipeline handle_client_thread() run on  *)
(*                     one connection after another against a fixed        *)
(*                     document root and catalog.                          *)
(*   ParseSpec       : the pipeline run on request buffers, line by line.  *)
(*   RangeSpec       : the pipeline run on range requests against files of *)
(*                     every size.                                         *)
(*   BuildSpec       : init_tree() over every listing of the document      *)
(*                     root, and the requests served from its catalog.     *)
(*   TreeSpec        : add_node() called on one file after another.        *)
(*   HashSpec        : hashFile() on files of every content, built with a  *)
(*                     signed or an unsigned plain char.                   *)
(*   ConfigSpec      : BuildSpec for a server started with or without -w.  *)
(*   QueueSpec       : Spec with a queue limit one above MaxQueueSize.     *)
(*   ShutdownSpec    : Spec with fair scheduling of the main thread and of *)
(*                     the workers, the clients left free.                 *)
(*   BodySpec        : the pipeline on a transport whose body writes fail. *)
(***************************************************************************)
EXTENDS Integers, Sequences, FiniteSets, TLC

(***************************************************************************)
(* Bounds of the model.                                                    *)
(***************************************************************************)
\* number of worker threads (ThreadPoolConfig.num_threads, scaled down)
NumThreads == 2
\* bounded queue depth M (ThreadPoolConfig.max_queue_size, scaled down)
MaxQueueSize == 1
\* number of client connections that arrive at the two listeners
MaxConn == 2
\* number of catalog rebuilds that SIGUSR1 can still ask for
MaxRefresh == 1

\* the longest request target
MaxPathLen == 2

Workers == 1..NumThreads
Conns == 1..MaxConn

\* the NULL catalog handle
NullTree == 0

VARIABLES
    \* ---- struct ThreadPool (thread_pool.c:14-36) ----
    work_queue,        \* the linked list head..tail, as a sequence of WorkItems
    work_queue_tail,   \* the item work_queue_tail points to, NoItem for NULL
    queue_size,
    shutdown,
    active_workers,
    completed_work,
    rejected_work,
    \* ---- worker threads ----
    wpc,               \* position of each worker in worker_thread()
    witem,             \* the item a worker has dequeued (its ThreadArgs)
    \* ---- main() ----
    mpc,               \* position of the acceptor in main()
    ready,             \* listeners select() reported readable
    g_shutdown,
    g_refresh_cache,
    cache_tree,        \* main's `cache_tree` handle
    \* ---- environment and history ----
    treeFreed,         \* catalogs released by cache_tree_free
    nTrees,            \* catalogs built so far
    nConn,             \* connections accepted so far
    connState,         \* per connection: what became of its descriptor
    freedUnexecuted,   \* items released by threadpool_destroy's final loop
    closes,            \* per connection: who called close(client_fd), in order
    fdLeft,            \* connections whose handler returned with client->fd open
    refreshOwed        \* SIGUSR1 arrived and no rebuild has started since

poolVars == <<work_queue, work_queue_tail, queue_size, shutdown, active_workers,
              completed_work, rejected_work>>
threadVars == <<wpc, witem>>
mainVars == <<mpc, ready, g_shutdown, g_refresh_cache, cache_tree>>
histVars == <<treeFreed, nTrees, nConn, connState,
              freedUnexecuted, closes, fdLeft,
              refreshOwed>>
serverVars == <<poolVars, threadVars, mainVars, histVars>>

VARIABLES
    \* ---- one worker in handle_client_thread (main.c:103-253) ----
    world,             \* which of Worlds: the document root and args->tree_head
    ppc,               \* "idle": holds a fresh connection; "done": returned
    req,               \* the request read from the transport
    resp,              \* the response written and the stages gone through
    sockOpen,          \* the transport has not been closed
    emitted            \* <<target, ETag>> of the earlier 200/206 responses

VARIABLES
    \* ---- what the worker and the catalog build are run on ----
    g_config,          \* the configuration record (config.c:18-33, 43-74)
    char_is_signed,    \* whether plain char is a signed type in this build
    buffer,            \* request_buffer as recv() filled it (main.c:106-122)
    fileSize,          \* st_size of the file a range request asks for
    rangeIn,           \* the range the client asks for
    listing,           \* results.txt: the files `find` printed, in its order
    catalog            \* the tree init_tree returned for the listing

inputVars == <<g_config, char_is_signed, buffer, fileSize, rangeIn, listing, catalog>>

pipeVars == <<world, ppc, req, resp, sockOpen, emitted, inputVars>>

NoItem == [conn |-> 0, tree |-> NullTree]

\* connState[c] is one of
\*   "none"            not accepted yet
\*   "dropped"         closed by the acceptor before any submit (handshake or
\*                     ThreadArgs allocation failed)
\*   "refused_full", "refused_nomem", "refused_shutdown"
\*                     threadpool_add_work returned -1 for that reason and the
\*                     acceptor closed the connection
\*   "queued"          threadpool_add_work returned 0, the item is in the queue
\*   "running"         a worker dequeued the item and runs handle_client_thread
\*   "closed_by_worker" handle_client_thread ran to its cleanup
Refused == {"refused_full", "refused_nomem", "refused_shutdown"}

\* connections whose add_work returned 0
submitted == {c \in Conns : connState[c] \in {"queued", "running", "closed_by_worker"}}

\* connections whose add_work returned -1
refused == {c \in Conns : connState[c] \in Refused}

\* connections a worker ran handle_client_thread for
executed == {c \in Conns : connState[c] = "closed_by_worker"}

(***************************************************************************)
(* Condition variables.  A thread inside pthread_cond_wait is at a         *)
(* "..._blocked" / "waiting" position; a signal moves one such thread (a   *)
(* broadcast: all of them) back to the position where it re-acquires the   *)
(* mutex and re-tests its loop condition.  Every critical section of       *)
(* thread_pool.c is one action, since queue_mutex is held throughout it.   *)
(***************************************************************************)
WaitingWorkers(pcs) == {w \in Workers : pcs[w] = "waiting"}

\* a submit that forgets to signal work_available
SignalWorkAvailable_Forgotten(pcs) == {pcs}

\* pthread_cond_signal(&pool->work_available): wakes one waiter, if any
SignalWorkAvailable(pcs) ==
    IF WaitingWorkers(pcs) = {}
    THEN {pcs}
    ELSE {[pcs EXCEPT ![w] = "lock"] : w \in WaitingWorkers(pcs)}

\* pthread_cond_broadcast(&pool->work_available)
BroadcastWorkAvailable(pcs) ==
    [w \in Workers |-> IF pcs[w] = "waiting" THEN "lock" ELSE pcs[w]]

\* a worker that finishes an item without signalling work_done
SignalWorkDone_Forgotten(pc) == pc

\* pthread_cond_signal(&pool->work_done): the only waiter is main
SignalWorkDone(pc) ==
    CASE pc = "refresh_wait_blocked" -> "refresh_wait"
      [] pc = "shutdown_wait_blocked" -> "shutdown_wait"
      [] OTHER -> pc

(***************************************************************************)
(* thread_pool.c                                                           *)
(***************************************************************************)
\* thread_pool.c:137  pool->max_queue_size = config.max_queue_size, which
\* main.c:386 takes from g_config; it is never written again
max_queue_size == g_config.max_queue_size

\* a submit that links the item in front of the head
Enqueue_AtHead(q, item) == <<item>> \o q

\* thread_pool.c:253-259  the item is linked behind the tail
Enqueue(q, item) == Append(q, item)

\* a dequeue that reads the head and leaves it linked
Dequeue_KeepHead(q) == q

\* thread_pool.c:76-80  the queue after the head was unlinked
Dequeue(q) == Tail(q)

\* an off-by-one limit test: rejects only above the limit
QueueFull_OffByOne(max, size) == max > 0 /\ size > max

\* thread_pool.c:245  the queue-size limit test of threadpool_add_work
QueueFull(max, size) == max > 0 /\ size >= max

\* a wait that looks at the queue only and forgets the active workers
WaitMustBlock_QueueOnly(q, active) == q # <<>>

\* thread_pool.c:289  the loop condition of threadpool_wait
WaitMustBlock(q, active) == q # <<>> \/ active > 0

\* thread_pool.c:63   the loop condition of worker_thread's cond_wait
WorkerMustWait(q, sd) == q = <<>> /\ ~sd

\* thread_pool.c:68   the exit test of worker_thread
WorkerMustExit(q, sd) == sd /\ q = <<>>

\* the way a threadpool_add_work call ends: "queued" is return 0, the rest -1
AddWorkResult(mallocOk) ==
    IF ~mallocOk THEN "refused_nomem"
    ELSE IF shutdown THEN "refused_shutdown"
    ELSE IF QueueFull(max_queue_size, queue_size) THEN "refused_full"
    ELSE "queued"

\* threadpool_add_work(pool, handle_client_thread, args): the item malloc may
\* fail; otherwise under the mutex: shutdown -> -1; full -> rejected_work++
\* and -1; else append, queue_size++, signal work_available, 0.
threadpool_add_work(item, mallocOk) ==
    /\ IF ~mallocOk \/ shutdown
       THEN UNCHANGED <<work_queue, work_queue_tail, queue_size, rejected_work, wpc>>
       ELSE IF QueueFull(max_queue_size, queue_size)
       THEN /\ rejected_work' = rejected_work + 1
            /\ UNCHANGED <<work_queue, work_queue_tail, queue_size, wpc>>
       ELSE /\ work_queue' = Enqueue(work_queue, item)
            /\ work_queue_tail' = item
            /\ queue_size' = queue_size + 1
            /\ wpc' \in SignalWorkAvailable(wpc)
            /\ UNCHANGED rejected_work

TailAfterDequeue_Stale(tail, item) == tail

\* thread_pool.c:77-79  if (pool->work_queue_tail == item) it becomes NULL
TailAfterDequeue(tail, item) == IF tail = item THEN NoItem ELSE tail

\* worker_thread, lines 60-84: lock; wait / exit / dequeue; unlock
WorkerLock(w) ==
    /\ wpc[w] = "lock"
    /\ IF WorkerMustWait(work_queue, shutdown)
       THEN /\ wpc' = [wpc EXCEPT ![w] = "waiting"]
            /\ UNCHANGED <<work_queue, work_queue_tail, queue_size, active_workers, witem,
                           connState, closes>>
       ELSE IF WorkerMustExit(work_queue, shutdown)
       THEN /\ wpc' = [wpc EXCEPT ![w] = "exited"]
            /\ UNCHANGED <<work_queue, work_queue_tail, queue_size, active_workers, witem,
                           connState, closes>>
       ELSE /\ witem' = [witem EXCEPT ![w] = Head(work_queue)]
            /\ work_queue' = Dequeue(work_queue)
            /\ work_queue_tail' = TailAfterDequeue(work_queue_tail, Head(work_queue))
            /\ queue_size' = queue_size - 1
            /\ active_workers' = active_workers + 1
            /\ connState' = [connState EXCEPT ![Head(work_queue).conn] = "running"]
            /\ wpc' = [wpc EXCEPT ![w] = "exec"]
            /\ UNCHANGED closes
    /\ UNCHANGED <<shutdown, completed_work, rejected_work, mainVars>>
    /\ UNCHANGED <<treeFreed, nTrees, nConn, freedUnexecuted, fdLeft, refreshOwed>>

\* pthread_cond_wait may return without a signal (spurious wakeup)
WorkerSpuriousWake(w) ==
    /\ wpc[w] = "waiting"
    /\ wpc' = [wpc EXCEPT ![w] = "lock"]
    /\ UNCHANGED <<poolVars, witem, mainVars, histVars>>

\* worker_thread, lines 92-96: lock; active_workers--; completed_work++;
\* signal work_done; unlock
WorkerFinish(w) ==
    /\ wpc[w] = "finish"
    /\ active_workers' = active_workers - 1
    /\ completed_work' = completed_work + 1
    /\ mpc' = SignalWorkDone(mpc)
    /\ wpc' = [wpc EXCEPT ![w] = "lock"]
    /\ witem' = [witem EXCEPT ![w] = NoItem]
    /\ UNCHANGED <<work_queue, work_queue_tail, queue_size, shutdown, rejected_work>>
    /\ UNCHANGED <<ready, g_shutdown, g_refresh_cache, cache_tree, histVars>>

(***************************************************************************)
(* main(): the acceptor loop (main.c:409-553) and the shutdown sequence    *)
(* (main.c:555-589)                                                        *)
(***************************************************************************)
\* a loop that goes on to select without looking at g_shutdown
MainLoopTop_NoShutdownTest ==
    /\ mpc = "loop"
    /\ mpc' = IF g_refresh_cache THEN "refresh_wait" ELSE "select"
    /\ UNCHANGED <<poolVars, threadVars, ready, g_shutdown, g_refresh_cache,
                   cache_tree, histVars>>

\* main.c:409-411  while (!g_shutdown) { if (g_refresh_cache) ...
MainLoopTop ==
    /\ mpc = "loop"
    /\ mpc' = IF g_shutdown THEN "shutdown_wait"
              ELSE IF g_refresh_cache THEN "refresh_wait"
              ELSE "select"
    /\ UNCHANGED <<poolVars, threadVars, ready, g_shutdown, g_refresh_cache,
                   cache_tree, histVars>>

\* threadpool_wait (thread_pool.c:284-294), called at main.c:415 and 566:
\* lock; while (head != NULL || active_workers > 0) cond_wait(work_done)
threadpool_wait(here, blocked, next) ==
    /\ mpc = here
    /\ mpc' = IF WaitMustBlock(work_queue, active_workers) THEN blocked ELSE next
    /\ UNCHANGED <<poolVars, threadVars, ready, g_shutdown, g_refresh_cache,
                   cache_tree, histVars>>

MainRefreshWait == threadpool_wait("refresh_wait", "refresh_wait_blocked", "refresh_free")

MainShutdownWait == threadpool_wait("shutdown_wait", "shutdown_wait_blocked", "destroy")

\* a spurious return of pthread_cond_wait(&pool->work_done, ...)
MainSpuriousWake ==
    /\ mpc \in {"refresh_wait_blocked", "shutdown_wait_blocked"}
    /\ mpc' = SignalWorkDone(mpc)
    /\ UNCHANGED <<poolVars, threadVars, ready, g_shutdown, g_refresh_cache,
                   cache_tree, histVars>>

\* cache_tree_free (cache.c:59-63)
cache_tree_free(t) == IF t # NullTree THEN treeFreed \cup {t} ELSE treeFreed

\* cache_tree_refresh, first half (cache.c:75): cache_tree_free(*tree_head)
MainRefreshFree ==
    /\ mpc = "refresh_free"
    /\ treeFreed' = cache_tree_free(cache_tree)
    /\ mpc' = "refresh_init"
    /\ UNCHANGED <<poolVars, threadVars, ready, g_shutdown, g_refresh_cache,
                   cache_tree>>
    /\ UNCHANGED <<nTrees, nConn, connState, closes,
                   freedUnexecuted, fdLeft>>
    /\ refreshOwed' = FALSE

\* cache_tree_refresh, second half (cache.c:76): *tree_head = cache_tree_init();
\* init_tree returns NULL when it cannot read its file list.  Then
\* main.c:420  g_refresh_cache = 0.
MainRefreshInit ==
    /\ mpc = "refresh_init"
    /\ \E built \in BOOLEAN :
          IF built
          THEN cache_tree' = nTrees + 1 /\ nTrees' = nTrees + 1
          ELSE cache_tree' = NullTree /\ UNCHANGED nTrees
    /\ g_refresh_cache' = FALSE
    /\ mpc' = "select"
    /\ UNCHANGED <<poolVars, threadVars, ready, g_shutdown>>
    /\ UNCHANGED <<treeFreed, nConn, connState, closes,
                   freedUnexecuted, fdLeft, refreshOwed>>

\* main.c:424-451  select() on both listeners with a 1 s timeout:
\* EINTR or timeout -> continue; another error -> break; else the ready set
MainSelect ==
    /\ mpc = "select"
    /\ \/ /\ mpc' = "loop"
          /\ ready' = {}
       \/ /\ mpc' = "shutdown_wait"
          /\ ready' = {}
       \/ /\ nConn < MaxConn
          /\ \E r \in (SUBSET {"http", "https"}) \ {{}} :
                /\ ready' = r
                /\ mpc' = IF "http" \in r THEN "http" ELSE "https"
    /\ UNCHANGED <<poolVars, threadVars, g_shutdown, g_refresh_cache,
                   cache_tree, histVars>>

\* an acceptor that logs the failure and leaves the descriptor open
AcceptorClose_Leak(c, why) ==
    /\ connState' = [connState EXCEPT ![c] = "leaked"]
    /\ UNCHANGED closes

\* the acceptor gives up a connection it holds: close(client_fd) (and, for
\* TLS, SSL_shutdown/SSL_free before it)
AcceptorClose(c, why) ==
    /\ connState' = [connState EXCEPT ![c] = why]
    /\ closes' = [closes EXCEPT ![c] = Append(@, "acceptor")]

\* main.c:470-488 and 529-551: build ThreadArgs{client_fd, ssl, tree_head =
\* cache_tree}, submit it; when the submit fails close the connection and
\* free the args
Submit(c, itemOk) ==
    /\ threadpool_add_work([conn |-> c, tree |-> cache_tree], itemOk)
    /\ IF AddWorkResult(itemOk) = "queued"
       THEN /\ connState' = [connState EXCEPT ![c] = "queued"]
            /\ UNCHANGED closes
       ELSE AcceptorClose(c, AddWorkResult(itemOk))

\* main.c:453-489  the cleartext listener is ready.  A failed accept or
\* allocation ends the iteration (continue), the TLS listener is not looked at.
MainHttp ==
    /\ mpc = "http"
    /\ \E acceptOk, argsOk, itemOk \in BOOLEAN :
          IF ~acceptOk \/ nConn >= MaxConn
          THEN /\ mpc' = "loop"
               /\ UNCHANGED <<poolVars, wpc, nConn, connState, closes>>
          ELSE /\ nConn' = nConn + 1
               /\ IF ~argsOk
                  THEN /\ AcceptorClose(nConn + 1, "dropped")
                       /\ mpc' = "loop"
                       /\ UNCHANGED <<work_queue, work_queue_tail, queue_size, rejected_work, wpc>>
                  ELSE /\ Submit(nConn + 1, itemOk)
                       /\ mpc' = IF "https" \in ready THEN "https" ELSE "loop"
    /\ ready' = IF mpc' = "https" THEN ready ELSE {}
    /\ UNCHANGED <<shutdown, active_workers, completed_work, witem,
                   g_shutdown, g_refresh_cache, cache_tree>>
    /\ UNCHANGED <<treeFreed, nTrees, freedUnexecuted, fdLeft, refreshOwed>>

\* main.c:491-552  the TLS listener is ready: accept, SSL_new, SSL_accept
MainHttps ==
    /\ mpc = "https"
    /\ \E acceptOk, handshakeOk, argsOk, itemOk \in BOOLEAN :
          IF ~acceptOk \/ nConn >= MaxConn
          THEN UNCHANGED <<poolVars, wpc, nConn, connState, closes>>
          ELSE /\ nConn' = nConn + 1
               /\ IF ~handshakeOk \/ ~argsOk
                  THEN /\ AcceptorClose(nConn + 1, "dropped")
                       /\ UNCHANGED <<work_queue, work_queue_tail, queue_size, rejected_work, wpc>>
                  ELSE Submit(nConn + 1, itemOk)
    /\ mpc' = "loop"
    /\ ready' = {}
    /\ UNCHANGED <<shutdown, active_workers, completed_work, witem,
                   g_shutdown, g_refresh_cache, cache_tree>>
    /\ UNCHANGED <<treeFreed, nTrees, freedUnexecuted, fdLeft, refreshOwed>>

\* threadpool_destroy, lines 319-322: lock; shutdown = true; broadcast; unlock
MainDestroy ==
    /\ mpc = "destroy"
    /\ shutdown' = TRUE
    /\ wpc' = BroadcastWorkAvailable(wpc)
    /\ mpc' = "join"
    /\ UNCHANGED <<work_queue, work_queue_tail, queue_size, active_workers, completed_work,
                   rejected_work, witem, ready, g_shutdown, g_refresh_cache,
                   cache_tree, histVars>>

\* threadpool_destroy, lines 325-336: join every worker, then free the items
\* still linked from work_queue_head together with their args
MainJoin ==
    /\ mpc = "join"
    /\ \A w \in Workers : wpc[w] = "exited"
    /\ freedUnexecuted' = {work_queue[i].conn : i \in 1..Len(work_queue)}
    /\ mpc' = "cache_free"
    /\ UNCHANGED <<poolVars, threadVars, ready, g_shutdown, g_refresh_cache,
                   cache_tree>>
    /\ UNCHANGED <<treeFreed, nTrees, nConn, connState, closes, fdLeft, refreshOwed>>

\* main.c:574  cache_tree_free(cache_tree), then the process ends
MainCacheFree ==
    /\ mpc = "cache_free"
    /\ treeFreed' = cache_tree_free(cache_tree)
    /\ mpc' = "done"
    /\ UNCHANGED <<poolVars, threadVars, ready, g_shutdown, g_refresh_cache,
                   cache_tree>>
    /\ UNCHANGED <<nTrees, nConn, connState, closes,
                   freedUnexecuted, fdLeft, refreshOwed>>

\* signal_handler (main.c:45-60): SIGINT/SIGTERM/SIGQUIT
SigShutdown ==
    /\ mpc # "done"
    /\ ~g_shutdown
    /\ g_shutdown' = TRUE
    /\ UNCHANGED <<poolVars, threadVars, mpc, ready, g_refresh_cache,
                   cache_tree, histVars>>

\* signal_handler (main.c:45-60): SIGUSR1
SigRefresh ==
    /\ mpc # "done"
    /\ ~g_refresh_cache
    /\ nTrees <= MaxRefresh
    /\ g_refresh_cache' = TRUE
    /\ UNCHANGED <<poolVars, threadVars, mpc, ready, g_shutdown, cache_tree>>
    /\ UNCHANGED <<treeFreed, nTrees, nConn, connState, closes,
                   freedUnexecuted, fdLeft>>
    /\ refreshOwed' = TRUE

\* signal_handler (main.c:45-60): SIGUSR1 while g_refresh_cache is 1, that
\* is from the handler's store up to main.c:420; the store leaves the flag
\* as it is
SigRefreshAgain ==
    /\ mpc # "done"
    /\ g_refresh_cache
    /\ g_refresh_cache' = TRUE
    /\ refreshOwed' = TRUE
    /\ UNCHANGED <<poolVars, threadVars, mpc, ready, g_shutdown, cache_tree>>
    /\ UNCHANGED <<treeFreed, nTrees, nConn, connState, closes,
                   freedUnexecuted, fdLeft>>

\* the state main() reaches at "=== Server Ready ===" (main.c:400-406):
\* catalog built, pool created with every worker started, no connection yet
ServerInit ==
    /\ work_queue = <<>>
    /\ work_queue_tail = NoItem
    /\ queue_size = 0
    /\ shutdown = FALSE
    /\ active_workers = 0
    /\ completed_work = 0
    /\ rejected_work = 0
    /\ wpc = [w \in Workers |-> "lock"]
    /\ witem = [w \in Workers |-> NoItem]
    /\ mpc = "loop"
    /\ ready = {}
    /\ g_shutdown = FALSE
    /\ g_refresh_cache = FALSE
    /\ cache_tree = 1
    /\ treeFreed = {}
    /\ nTrees = 1
    /\ nConn = 0
    /\ connState = [c \in Conns |-> "none"]
    /\ freedUnexecuted = {}
    /\ closes = [c \in Conns |-> <<>>]
    /\ fdLeft = {}
    /\ refreshOwed = FALSE

(***************************************************************************)
(* Strings.  A C string is a sequence of one-character strings; Code gives *)
(* the byte value of a character.                                          *)
(***************************************************************************)
\* the absent string (a NULL char*)
NoStr == <<"NULL">>

\* the byte value of a character (the letters of the document root first)
Code(c) ==
    CASE c = "e" -> 101
      [] c = "/" -> 47
      [] c = "r" -> 114
      [] c = "s" -> 115
      [] c = "o" -> 111
      [] c = "m" -> 109
      [] c = "a" -> 97
      [] c = "g" -> 103
      [] c = "p" -> 112
      [] c = "w" -> 119
      [] c = "b" -> 98
      [] c = "h" -> 104
      [] c = "t" -> 116
      [] c = "v" -> 118
      [] c = "." -> 46
      [] c = "l" -> 108
      [] c = "d" -> 100
      [] c = "n" -> 110
      [] c = "i" -> 105
      [] c = " " -> 32
      [] c = "\"" -> 34
      [] c = "-" -> 45
      [] c = "0" -> 48
      [] c = "1" -> 49
      [] c = "2" -> 50
      [] c = "3" -> 51
      [] c = "4" -> 52
      [] c = "5" -> 53
      [] c = "6" -> 54
      [] c = "7" -> 55
      [] c = "8" -> 56
      [] c = "9" -> 57
      [] c = "A" -> 65
      [] c = "M" -> 77
      [] c = "S" -> 83
      [] c = "T" -> 84
      [] c = "u" -> 117
      [] c = "," -> 44
      [] c = "W" -> 87
      [] c = "c" -> 99
      [] c = "x" -> 120
      [] OTHER -> 63

Digits == <<"0", "1", "2", "3", "4", "5", "6", "7", "8", "9">>

IsDigit(c) == \E d \in 1..10 : Digits[d] = c

DigitValue(c) == (CHOOSE d \in 1..10 : Digits[d] = c) - 1

\* strstr(s, sub) != NULL
Contains(s, sub) ==
    \E i \in 1..(Len(s) - Len(sub) + 1) : SubSeq(s, i, i + Len(sub) - 1) = sub

\* the index of the first occurrence of character c in s, 0 when there is none
IndexOf(s, c) ==
    IF \E i \in 1..Len(s) : s[i] = c
    THEN CHOOSE i \in 1..Len(s) : s[i] = c /\ \A j \in 1..(i - 1) : s[j] # c
    ELSE 0

\* strcmp(a, b): the sign of the first differing byte, the terminator being 0
RECURSIVE strcmp(_, _)
strcmp(a, b) ==
    IF a = <<>> /\ b = <<>> THEN 0
    ELSE IF a = <<>> THEN -1
    ELSE IF b = <<>> THEN 1
    ELSE IF Code(Head(a)) < Code(Head(b)) THEN -1
    ELSE IF Code(Head(a)) > Code(Head(b)) THEN 1
    ELSE strcmp(Tail(a), Tail(b))

\* printf("%u", n)
RECURSIVE FormatUnsigned(_)
FormatUnsigned(n) ==
    IF n < 10 THEN <<Digits[n + 1]>>
    ELSE Append(FormatUnsigned(n \div 10), Digits[(n % 10) + 1])

\* strtoul(s, NULL, 10) on the leading digits of s (0 when there are none)
RECURSIVE ParseDigits(_, _)
ParseDigits(s, acc) ==
    IF s = <<>> \/ ~IsDigit(Head(s)) THEN acc
    ELSE ParseDigits(Tail(s), acc * 10 + DigitValue(Head(s)))

strtoul(s) == ParseDigits(s, 0)

(***************************************************************************)
(* node.c, cache.c: the catalog                                            *)
(***************************************************************************)
\* 2^16: a 32-bit unsigned value is kept as <<high half, low half>>
Half == 65536

\* one round of djb2 on a 32-bit value: h * 33 + c, truncated to 32 bits
Djb2Step(h, c) ==
    <<(h[1] * 33 + ((h[2] * 33 + c) \div Half)) % Half, (h[2] * 33 + c) % Half>>

\* node.c:220-233  djb2 over the bytes of the path from the i-th on, hash
\* being the value so far (5381 at the start).  The unsigned long is cut to
\* 32 bits when it is returned as int and stored as unsigned int; cutting
\* after every round gives the same 32 bits.  The first test reads the value
\* so far, so that each round is evaluated before the next one starts.
RECURSIVE djb2(_, _, _)
djb2(s, i, hash) ==
    IF hash[1] < Half /\ i > Len(s) THEN hash
    ELSE djb2(s, i + 1, Djb2Step(hash, Code(s[i])))

hashPath(filename) == djb2(filename, 1, <<0, 5381>>)

\* types.h:12
SERVER_PATH == <<"/", "h", "o", "m", "e", "/", "r", "e", "m", "o", "t", "e",
                 "/", "s", "e", "r", "v", "e", "r">>

\* request.c:294, node.c:36  the directory of the pages under the root
WebpagesDir == <<"/", "w", "e", "b", "p", "a", "g", "e", "s">>

\* the value djb2 has reached after the bytes of SERVER_PATH/webpages
DocRootHash == djb2(SERVER_PATH \o WebpagesDir, 1, <<0, 5381>>)

\* cache.c:36-40  hashPath(path).  djb2 reads the bytes from left to right,
\* so for a path under SERVER_PATH/webpages the rounds over that prefix end
\* in DocRootHash whatever follows; they are taken from there instead of
\* being run again for every lookup.
cache_hash_path(path) ==
    LET prefix == SERVER_PATH \o WebpagesDir
    IN  IF Len(path) >= Len(prefix) /\ SubSeq(path, 1, Len(prefix)) = prefix
        THEN djb2(path, Len(prefix) + 1, DocRootHash)
        ELSE hashPath(path)

\* node.c:185, 189  `char buffer[READSIZE]` after read(): a byte of the file
\* as the value of buffer[i].  Whether plain char is signed is the build's
\* choice; where it is, a byte from 128 on reads as the byte minus 256.
CharOf(byte, is_signed) ==
    IF is_signed /\ byte >= 128 THEN byte - 256 ELSE byte

ReadChars(bytes, is_signed) ==
    [i \in 1..Len(bytes) |-> CharOf(bytes[i], is_signed)]

\* the files of every specification but the one on file contents hold bytes
\* below 128, which a build of either kind reads as the same char values
AsciiBuild == TRUE

\* node.c:174-202  5381 plus the sum of the values of buffer[i] over the
\* file.  The sum of the files modelled stays between 0 and 2^31, so the cut
\* to 32 bits of the return leaves it as it is.
RECURSIVE SumBytes(_)
SumBytes(bytes) == IF bytes = <<>> THEN 0 ELSE Head(bytes) + SumBytes(Tail(bytes))

hashFile(bytes) == 5381 + SumBytes(bytes)

NoNode == [path |-> NoStr, path_hash |-> <<0, 0>>, file_hash |-> 0,
           last_modified |-> NoStr]

\* node.c:298-300, 368-372  the comparison of two unsigned 32-bit values
HashLess(a, b) == a[1] < b[1] \/ (a[1] = b[1] /\ a[2] < b[2])

\* A tree is written as the sequence of its nodes in the order they were
\* linked, the root first; left and right are places in that sequence, 0
\* for NULL, and the empty sequence is the NULL tree.

\* node.c:360-378  the walk from curr down to the node whose path_hash is tag
RECURSIVE lookupFrom(_, _, _)
lookupFrom(tree, curr, tag) ==
    IF curr = 0 THEN NoNode
    ELSE IF tree[curr].path_hash = tag THEN tree[curr]
    ELSE IF HashLess(tag, tree[curr].path_hash)
    THEN lookupFrom(tree, tree[curr].left, tag)
    ELSE lookupFrom(tree, tree[curr].right, tag)

lookupNode_RootOnly(tree, tag) ==
    IF tree = <<>> \/ tag = <<0, 0>> \/ tree[1].path_hash # tag THEN NoNode
    ELSE tree[1]

\* node.c:360-378  NULL for a NULL tree and for tag 0
lookupNode(tree, tag) ==
    IF tree = <<>> \/ tag = <<0, 0>> THEN NoNode
    ELSE lookupFrom(tree, 1, tag)

\* cache.c:22-27
cache_lookup(tree_head, path) ==
    IF tree_head = <<>> \/ path = NoStr THEN NoNode
    ELSE lookupNode(tree_head, cache_hash_path(path))

\* node.c:105-156  the node add_node builds for a readable file
MakeNode(path, bytes, mtime) ==
    [path |-> path, path_hash |-> hashPath(path), file_hash |-> hashFile(bytes),
     last_modified |-> mtime, left |-> 0, right |-> 0]

\* node.c:174-203  hashFile(filename): 0 when the file cannot be opened
hashFileOpen(file) ==
    IF ~file.readable THEN 0
    ELSE hashFile(ReadChars(file.bytes, char_is_signed))

\* the tree with new_node linked as the left or the right child of curr
LinkLeft(tree, curr, new_node) ==
    [Append(tree, new_node) EXCEPT ![curr].left = Len(tree) + 1]

LinkRight(tree, curr, new_node) ==
    [Append(tree, new_node) EXCEPT ![curr].right = Len(tree) + 1]

RECURSIVE insertFrom_KeepDuplicate(_, _, _)
insertFrom_KeepDuplicate(tree, curr, new_node) ==
    IF HashLess(new_node.path_hash, tree[curr].path_hash)
    THEN IF tree[curr].left = 0 THEN LinkLeft(tree, curr, new_node)
         ELSE insertFrom_KeepDuplicate(tree, tree[curr].left, new_node)
    ELSE IF tree[curr].right = 0 THEN LinkRight(tree, curr, new_node)
         ELSE insertFrom_KeepDuplicate(tree, tree[curr].right, new_node)

insert_node_KeepDuplicate(head, new_node) ==
    insertFrom_KeepDuplicate(head, 1, new_node)

\* node.c:291-308  the loop of insert_node from curr on: stop at a node of
\* the same path_hash, else go left or right and link at the first NULL
RECURSIVE insertFrom(_, _, _)
insertFrom(tree, curr, new_node) ==
    IF tree[curr].path_hash = new_node.path_hash THEN tree
    ELSE IF HashLess(new_node.path_hash, tree[curr].path_hash)
    THEN IF tree[curr].left = 0 THEN LinkLeft(tree, curr, new_node)
         ELSE insertFrom(tree, tree[curr].left, new_node)
    ELSE IF tree[curr].right = 0 THEN LinkRight(tree, curr, new_node)
         ELSE insertFrom(tree, tree[curr].right, new_node)

\* node.c:288-309  head is not NULL
insert_node(head, new_node) == insertFrom(head, 1, new_node)

\* node.c:105-156  the value add_node returns: NULL when one of the hashes
\* is 0, the new node for an empty tree, else the head it was given.  mtime
\* is what update_last_modified formats for the file.
add_node(head, file, mtime) ==
    IF hashPath(file.path) = <<0, 0>> THEN <<>>
    ELSE IF hashFileOpen(file) = 0 THEN <<>>
    ELSE LET new_node == MakeNode(file.path,
                                  ReadChars(file.bytes, char_is_signed), mtime)
         IN  IF head = <<>> THEN <<new_node>>
             ELSE insert_node(head, new_node)

VideosDir == <<"/", "v", "i", "d", "e", "o", "s", "/">>

\* node.c:70-76  the loop over the lines after the first one
RECURSIVE AddLines(_, _, _, _)
AddLines(head, lines, i, mtime) ==
    IF i > Len(lines) THEN head
    ELSE AddLines(IF Contains(lines[i].path, VideosDir) THEN head
                  ELSE add_node(head, lines[i], mtime),
                  lines, i + 1, mtime)

\* node.c:26-84  the tree built from the lines of results.txt
init_tree(lines, mtime) ==
    IF lines = <<>> THEN <<>>
    ELSE AddLines(add_node(<<>>, lines[1], mtime), lines, 2, mtime)

(***************************************************************************)
(* The file system under SERVER_PATH/webpages and the catalog built from   *)
(* it.                                                                     *)
(***************************************************************************)
\* config.c:19, 32  init_default_config: the webroot when no -w flag is
\* given, and the queue limit
DefaultConfig == [webroot |-> SERVER_PATH, max_queue_size |-> MaxQueueSize]

\* config.c:57-60  load_config: -w replaces the webroot by its argument
Webroots == {SERVER_PATH, <<"/", "w">>}

\* main.c:178  g_config.webroot, as the handler reads it
webroot == g_config.webroot

LandingPage == <<"/", "l", "a", "n", "d", "i", "n", "g", ".", "h", "t", "m", "l">>

\* an mtime as update_last_modified (node.c:252-271) formats it, cut after
\* the day of the month
Sun03 == <<"S", "u", "n", ",", " ", "0", "3">>

\* the document root: the directory itself, the landing page, and a file "a"
\* whose permission bits vary
FsEntries(aReadable) ==
    { [path |-> SERVER_PATH \o WebpagesDir, kind |-> "dir", readable |-> TRUE,
       size |-> 2, bytes |-> <<>>],
      [path |-> SERVER_PATH \o WebpagesDir \o LandingPage, kind |-> "file",
       readable |-> TRUE, size |-> 2, bytes |-> <<104, 105>>],
      [path |-> SERVER_PATH \o WebpagesDir \o <<"/", "a">>, kind |-> "file",
       readable |-> aReadable, size |-> 1, bytes |-> <<97>>] }

\* node.c:26-84  the catalog init_tree builds: one node per listed file
LandingNode == MakeNode(SERVER_PATH \o WebpagesDir \o LandingPage, <<104, 105>>, Sun03)

FileANode == MakeNode(SERVER_PATH \o WebpagesDir \o <<"/", "a">>, <<97>>, Sun03)

\* the states of the document root and of the catalog a request can meet:
\* everything cataloged; "a" created after the build; "a" made unreadable
\* after the build; the build failed (a NULL tree)
Worlds ==
    << [fs |-> FsEntries(TRUE),  tree |-> insert_node(<<LandingNode>>, FileANode)],
       [fs |-> FsEntries(TRUE),  tree |-> <<LandingNode>>],
       [fs |-> FsEntries(FALSE), tree |-> insert_node(<<LandingNode>>, FileANode)],
       [fs |-> FsEntries(TRUE),  tree |-> <<>>] >>

\* path resolution of the kernel: "/." components and a trailing "/" name
\* the directory itself
RECURSIVE DropDotSegments(_)
DropDotSegments(p) ==
    IF p = <<>> THEN <<>>
    ELSE IF Len(p) >= 2 /\ p[1] = "/" /\ p[2] = "." /\ (Len(p) = 2 \/ p[3] = "/")
    THEN DropDotSegments(SubSeq(p, 3, Len(p)))
    ELSE <<Head(p)>> \o DropDotSegments(Tail(p))

HasEntry(fs, p) == \E f \in fs : f.path = p

EntryAt(fs, p) == CHOOSE f \in fs : f.path = p

\* main.c:213  open(full_path, O_RDONLY): the entry opened, or the errno
open(fs, full_path) ==
    LET p       == DropDotSegments(full_path)
        asDir   == p # <<>> /\ p[Len(p)] = "/"
        q       == IF asDir THEN SubSeq(p, 1, Len(p) - 1) ELSE p
        through == \E i \in 1..(Len(q) - 1) :
                       /\ q[i + 1] = "/"
                       /\ HasEntry(fs, SubSeq(q, 1, i))
                       /\ EntryAt(fs, SubSeq(q, 1, i)).kind = "file"
    IN  IF through THEN [errno |-> "ENOTDIR"]
        ELSE IF ~HasEntry(fs, q) THEN [errno |-> "ENOENT"]
        ELSE IF asDir /\ EntryAt(fs, q).kind = "file" THEN [errno |-> "ENOTDIR"]
        ELSE IF ~EntryAt(fs, q).readable THEN [errno |-> "EACCES"]
        ELSE [errno |-> "OK", file |-> EntryAt(fs, q)]

(***************************************************************************)
(* request.c: the parser                                                   *)
(***************************************************************************)
KeepAliveStr == <<"k", "e", "e", "p", "-", "a", "l", "i", "v", "e">>

CloseStr == <<"c", "l", "o", "s", "e">>

BytesEq == <<"b", "y", "t", "e", "s", "=">>

\* atoll(s): an optional sign, then the leading digits
atoll(s) ==
    IF s # <<>> /\ s[1] = "-" THEN 0 - ParseDigits(Tail(s), 0)
    ELSE IF s # <<>> /\ s[1] = "+" THEN ParseDigits(Tail(s), 0)
    ELSE ParseDigits(s, 0)

RECURSIVE SkipBlanks(_)
SkipBlanks(s) ==
    IF s # <<>> /\ s[1] = " " THEN SkipBlanks(Tail(s)) ELSE s

\* request.c:188-222
parse_range_header(range_value) ==
    IF Len(range_value) < 6 \/ SubSeq(range_value, 1, 6) # BytesEq
    THEN [range |-> 0, start_range |-> 0, end_range |-> -1]
    ELSE LET v == SubSeq(range_value, 7, Len(range_value))
             dash == IndexOf(v, "-")
             after == SkipBlanks(SubSeq(v, dash + 1, Len(v)))
         IN  IF v # <<>> /\ v[1] = "-"
             THEN [range |-> 1, start_range |-> 0 - atoll(Tail(v)), end_range |-> -1]
             ELSE IF dash = 0
             THEN [range |-> 1, start_range |-> 0, end_range |-> -1]
             ELSE [range |-> 1, start_range |-> atoll(v),
                   end_range |-> IF after # <<>> /\ IsDigit(after[1])
                                 THEN atoll(after) ELSE -1]

ParseIfNoneMatch_KeepQuote(value) == strtoul(value)

\* request.c:139-146  If-None-Match: drop a leading quote, cut at the next
\* quote, strtoul
ParseIfNoneMatch(value) ==
    LET etag == IF value # <<>> /\ value[1] = "\"" THEN Tail(value) ELSE value
        end  == IndexOf(etag, "\"")
    IN  strtoul(IF end > 0 THEN SubSeq(etag, 1, end - 1) ELSE etag)

\* request.c:129-135  Connection: keep-alive sets the flag, anything else
\* clears it; without the header the flag keeps the version's default
ParseConnection(value, default) ==
    IF value = NoStr THEN default
    ELSE IF Len(value) >= 10 /\ SubSeq(value, 1, 10) = KeepAliveStr THEN 1
    ELSE 0

\* request.c:236-245
validate_http_method(method) == method \in {"GET", "HEAD", "OPTIONS"}

validate_path_DotsOnly(path) ==
    /\ path # NoStr
    /\ ~Contains(path, <<".", ".">>)

\* request.c:260-271
validate_path(path) ==
    /\ path # NoStr
    /\ ~Contains(path, <<".", ".">>)
    /\ ~Contains(path, <<"/", "/">>)

\* request.c:287-297
resolve_request_path(request_path, root) ==
    root \o WebpagesDir \o (IF request_path = <<"/">> THEN LandingPage ELSE request_path)

\* request.c:31-112  the Client the parser returns, or the status of the
\* error response it sends itself before returning NULL.  raw holds the
\* tokens of the request line and the value of each header line (NoStr for a
\* header that is absent).
parse_http_request(raw, ssl) ==
    IF raw.method = "" \/ raw.path = NoStr \/ raw.version = ""
    THEN [ok |-> FALSE, status |-> 400]
    ELSE IF raw.version \notin {"HTTP/1.0", "HTTP/1.1"}
    THEN [ok |-> FALSE, status |-> 505]
    ELSE IF raw.version = "HTTP/1.1" /\ raw.host = NoStr
    THEN [ok |-> FALSE, status |-> 400]
    ELSE LET r == IF raw.range = NoStr
                  THEN [range |-> 0, start_range |-> 0, end_range |-> -1]
                  ELSE parse_range_header(raw.range)
         IN  [ok |-> TRUE, status |-> 0,
              client |->
                [method            |-> raw.method,
                 path              |-> raw.path,
                 version           |-> raw.version,
                 host              |-> raw.host,
                 connection_status |-> ParseConnection(raw.connection,
                                          IF raw.version = "HTTP/1.1" THEN 1 ELSE 0),
                 tag               |-> IF raw.if_none_match = NoStr THEN 0
                                       ELSE ParseIfNoneMatch(raw.if_none_match),
                 modified_since    |-> raw.if_modified_since,
                 range             |-> r.range,
                 start_range       |-> r.start_range,
                 end_range         |-> r.end_range,
                 upgrade_tls       |-> raw.upgrade # NoStr /\ raw.upgrade # <<>>
                                          /\ raw.upgrade[1] = "1",
                 is_ssl            |-> ssl]]

(***************************************************************************)
(* response.c: what is written to the transport                            *)
(***************************************************************************)
\* "ETag: \"%u\""  (response.c:118-119, 318-319): the value of the header
ETagHeader(file_hash) == <<"\"">> \o FormatUnsigned(file_hash) \o <<"\"">>

AllowMethods == <<"G", "E", "T", ",", " ", "H", "E", "A", "D", ",", " ",
                  "O", "P", "T", "I", "O", "N", "S">>

\* a response: the status, the headers that vary (NoStr for a header that is
\* not written), the body, whether the header block went out, and the value
\* the sender returns
Response(status, connection, etag, last_modified) ==
    [status |-> status, connection |-> connection, etag |-> etag,
     last_modified |-> last_modified, location |-> NoStr, allow |-> NoStr,
     content_length |-> 0, content_range |-> <<>>,
     body_kind |-> "none", body |-> <<>>, delivered |-> TRUE, result |-> 0]

\* a table that knows no status code
get_status_message_Unknown(code) == "Unknown"

\* response.c:354-370
get_status_message(code) ==
    CASE code = 200 -> "OK"
      [] code = 206 -> "Partial Content"
      [] code = 301 -> "Moved Permanently"
      [] code = 304 -> "Not Modified"
      [] code = 400 -> "Bad Request"
      [] code = 403 -> "Forbidden"
      [] code = 404 -> "Not Found"
      [] code = 416 -> "Range Not Satisfiable"
      [] code = 418 -> "I'm a teapot"
      [] code = 500 -> "Internal Server Error"
      [] code = 501 -> "Not Implemented"
      [] code = 505 -> "HTTP Version Not Supported"
      [] OTHER -> "Unknown"

\* response.c:241-251  the error page: the pieces of the format string and
\* its four arguments, in the order snprintf writes them
ErrorPage(status_code, status_msg) ==
    <<"<html>\n<head><title>", FormatUnsigned(status_code), " ", status_msg,
      "</title></head>\n<body>\n<h1>", FormatUnsigned(status_code), " ",
      status_msg, "</h1>\n<hr>\n<p>Snap/0.4</p>\n</body>\n</html>\n">>

send_error_response_KeepAlive(status_code) ==
    [Response(status_code, KeepAliveStr, NoStr, NoStr)
        EXCEPT !.body_kind = "error_page", !.content_length = 1,
               !.body = ErrorPage(status_code, get_status_message(status_code))]

\* response.c:234-285
send_error_response(status_code) ==
    [Response(status_code, CloseStr, NoStr, NoStr)
        EXCEPT !.body_kind = "error_page", !.content_length = 1,
               !.body = ErrorPage(status_code, get_status_message(status_code))]

send_not_modified_response_ETagOnTls(client, cache_node) ==
    Response(304, NoStr,
             IF cache_node # NoNode THEN ETagHeader(cache_node.file_hash) ELSE NoStr,
             IF cache_node # NoNode THEN cache_node.last_modified ELSE NoStr)

\* response.c:305-339
send_not_modified_response(client, cache_node) ==
    Response(304, NoStr,
             IF cache_node # NoNode /\ ~client.is_ssl
             THEN ETagHeader(cache_node.file_hash) ELSE NoStr,
             IF cache_node # NoNode THEN cache_node.last_modified ELSE NoStr)

\* response.c:427-454
send_redirect_response(location) ==
    [Response(301, CloseStr, NoStr, NoStr) EXCEPT !.location = location]

\* response.c:472-499
send_options_response ==
    [Response(200, NoStr, NoStr, NoStr) EXCEPT !.allow = AllowMethods]

\* response.c:519-546  416 with "Content-Range: bytes */file_size" (written
\* here as the one-element <<file_size>>), Content-Length: 0 and no body.
\* Nothing in the server calls it.
send_range_not_satisfiable(file_size) ==
    [Response(416, NoStr, NoStr, NoStr) EXCEPT !.content_range = <<file_size>>]

\* What the transport does to the writes of one response: whether the header
\* block goes out, and which write of the body fails (0: none) with which
\* errno; which write of the body takes one byte less than it was given,
\* and which read of the file returns one byte less than it could.
NetOk == [header_sent |-> TRUE, fail_at |-> 0, errno |-> "none",
          short_write_at |-> 0, short_read_at |-> 0]

NetSendFails == [NetOk EXCEPT !.header_sent = FALSE]

BodyWriteFails(k, errno) == [NetOk EXCEPT !.fail_at = k, !.errno = errno]

\* response.c:190  send() returns a count below bytes_read: a signal
\* arrived while it was blocked with part of the buffer taken
BodyWriteShort(k) == [NetOk EXCEPT !.short_write_at = k]

\* response.c:180  read() returns a count below size_to_read before the
\* end of the file
BodyReadShort(k) == [NetOk EXCEPT !.short_read_at = k]

\* response.c:15  the size of the copy buffer, 65536 in the source, scaled
\* down to the files of the model
BUFFER_SIZE == 2

\* a failed body write that is always taken for an error
SendFailure_AlwaysError(errno) == -1

\* response.c:194-203  what send_file_response returns after a failed write
SendFailure(errno) == IF errno \in {"ECONNRESET", "EPIPE"} THEN 0 ELSE -1

\* response.c:177-207  the copy loop from offset pos on with `remaining` bytes
\* to go: one read of at most BUFFER_SIZE bytes and one write per round.
\* body is what the transport has taken, writes the number of writes so
\* far.  A read that returns nothing breaks the loop.  The file offset moves
\* by what read() returned, and response.c:205-206 take bytes_read from
\* remaining, whatever bytes_sent was.
RECURSIVE CopyFrom(_, _, _, _, _, _)
CopyFrom(file, pos, remaining, net, writes, body) ==
    IF Len(body) >= 0 /\ remaining <= 0 THEN [body |-> body, result |-> 0]
    ELSE LET size_to_read == IF remaining > BUFFER_SIZE THEN BUFFER_SIZE
                             ELSE remaining
             left == Len(file.bytes) - pos
             there == IF left < size_to_read THEN left ELSE size_to_read
             bytes_read == IF net.short_read_at = writes + 1 /\ there >= 2
                           THEN there - 1 ELSE there
             bytes_sent == IF net.short_write_at = writes + 1 /\ bytes_read >= 2
                           THEN bytes_read - 1 ELSE bytes_read
         IN  IF bytes_read <= 0 THEN [body |-> body, result |-> 0]
             ELSE IF net.fail_at = writes + 1
             THEN [body |-> body, result |-> SendFailure(net.errno)]
             ELSE CopyFrom(file, pos + bytes_read, remaining - bytes_read, net,
                           writes + 1,
                           body \o SubSeq(file.bytes, pos + 1, pos + bytes_sent))

\* response.c:168-207  lseek to start and the copy loop: read() on a
\* directory fails at once (EISDIR) and the loop breaks
CopyLoop(file, start, end, net) ==
    IF file.kind = "dir" THEN [body |-> <<>>, result |-> 0]
    ELSE CopyFrom(file, start, end - start + 1, net, 0, <<>>)

\* response.c:39-213
send_file_response(client, cache_node, file, net) ==
    LET file_size  == file.size
        is_partial == client.range = 1
        suffix_len == 0 - client.start_range
        start == IF ~is_partial THEN 0
                 ELSE IF client.start_range < 0
                 THEN (IF file_size > suffix_len THEN file_size - suffix_len ELSE 0)
                 ELSE client.start_range
        end   == IF is_partial /\ client.start_range >= 0
                    /\ client.end_range > 0 /\ client.end_range < file_size
                 THEN client.end_range
                 ELSE file_size - 1
        content_length == end - start + 1
        headers ==
            [Response(IF is_partial THEN 206 ELSE 200,
                      IF client.connection_status = 1 THEN KeepAliveStr ELSE CloseStr,
                      IF cache_node # NoNode /\ ~client.is_ssl
                      THEN ETagHeader(cache_node.file_hash) ELSE NoStr,
                      IF cache_node # NoNode THEN cache_node.last_modified ELSE NoStr)
                EXCEPT !.content_length = content_length,
                       !.content_range = IF is_partial THEN <<start, end, file_size>>
                                         ELSE <<>>]
    IN  IF is_partial /\ (start >= file_size \/ start < 0 \/ end < start)
        THEN [send_error_response(416) EXCEPT !.result = -1]
        ELSE IF ~net.header_sent
        THEN [headers EXCEPT !.delivered = FALSE, !.result = -1]
        ELSE IF client.method = "HEAD"
        THEN headers
        ELSE LET copied == CopyLoop(file, start, end, net)
             IN  [headers EXCEPT !.body_kind = "file",
                                 !.body = copied.body,
                                 !.result = copied.result]

(***************************************************************************)
(* main.c: handle_client_thread                                            *)
(***************************************************************************)
HttpsScheme == <<"h", "t", "t", "p", "s", ":", "/", "/">>

Localhost == <<"l", "o", "c", "a", "l", "h", "o", "s", "t">>

\* what one run of the handler did: the response and the stages it went
\* through
Outcome(response, reached) ==
    [response |-> response, reached |-> reached]

\* nothing has been written to the transport
NoOutcome == [reached |-> {}]

\* main.c:156-166  the method gate
MethodGate(client) ==
    IF client.method = "OPTIONS" THEN send_options_response
    ELSE send_error_response(501)

free_client_KeepFd(fd) == {}

\* request.c:310-325  free_client: close(client->fd) when it is not negative
free_client(fd) == IF fd >= 0 THEN {"close_fd"} ELSE {}

\* main.c:213-236  open the file and send it; client->fd is what open
\* returned (-1 on failure), and every branch ends in free_client
OpenAndSend(client, cache_node, full_path, fs, net) ==
    LET o == open(fs, full_path)
        fd == IF o.errno = "OK" THEN 3 ELSE -1
        stages == {"parse", "resolve", "lookup", "open"} \cup free_client(fd)
    IN  IF o.errno = "ENOENT" THEN Outcome(send_error_response(404), stages)
        ELSE IF o.errno = "EACCES" THEN Outcome(send_error_response(403), stages)
        ELSE IF o.errno # "OK" THEN Outcome(send_error_response(500), stages)
        ELSE Outcome(send_file_response(client, cache_node, o.file, net),
                     stages \cup {"fd", "send"})

NotModifiedSince_SameDate(last_modified, modified_since) ==
    strcmp(last_modified, modified_since) = 0

\* main.c:193  strcmp(cache_node->last_modified, client->modified_since) <= 0
NotModifiedSince(last_modified, modified_since) ==
    strcmp(last_modified, modified_since) <= 0

\* main.c:177-210  resolve, look the path up, answer 304 from the catalog
ServeFromCatalog(client, tree_head, fs, net) ==
    LET full_path  == resolve_request_path(client.path, webroot)
        cache_node == cache_lookup(tree_head, full_path)
        stages     == {"parse", "resolve", "lookup"}
    IN  IF /\ cache_node # NoNode
           /\ cache_node.last_modified # NoStr
           /\ client.modified_since # NoStr
           /\ NotModifiedSince(cache_node.last_modified, client.modified_since)
        THEN Outcome(send_not_modified_response(client, cache_node), stages)
        ELSE IF cache_node # NoNode /\ client.tag # 0 /\ cache_node.file_hash = client.tag
        THEN Outcome(send_not_modified_response(client, cache_node), stages)
        ELSE OpenAndSend(client, cache_node, full_path, fs, net)

RedirectToTls_AnyTransport(client, ssl) == client.upgrade_tls

\* main.c:144  if (!args->ssl && client->upgrade_tls)
RedirectToTls(client, ssl) == ~ssl /\ client.upgrade_tls

\* main.c:103-253  from the parsed request to the response
handle_client_thread(raw, ssl, tree_head, fs, net) ==
    LET p == parse_http_request(raw, ssl)
    IN  IF ~p.ok
        THEN Outcome(send_error_response(p.status), {})
        ELSE IF RedirectToTls(p.client, ssl)
        THEN Outcome(send_redirect_response(
                         HttpsScheme
                         \o (IF p.client.host # NoStr THEN p.client.host ELSE Localhost)
                         \o p.client.path),
                     {"parse"})
        ELSE IF ~validate_http_method(p.client.method)
        THEN Outcome(MethodGate(p.client), {"parse"})
        ELSE IF ~validate_path(p.client.path)
        THEN Outcome(send_error_response(403), {"parse"})
        ELSE ServeFromCatalog(p.client, tree_head, fs, net)

(***************************************************************************)
(* The requests a client can send                                          *)
(***************************************************************************)
Methods == {"GET", "HEAD", "OPTIONS", "POST"}

PathChars == {"/", ".", "a"}

Paths == UNION { [1..n -> PathChars] : n \in 1..MaxPathLen }

Versions == {"HTTP/1.0", "HTTP/1.1", "HTTP/2.0"}

Hosts == {NoStr, <<"h">>}

ConnectionValues == {NoStr, KeepAliveStr, CloseStr}

UpgradeValues == {NoStr, <<"1">>}

\* the ETag of the landing page as a cleartext 200 writes it, and the same
\* as a weak validator, which strtoul reads as 0
IfNoneMatchValues ==
    {NoStr, ETagHeader(LandingNode.file_hash),
     <<"W", "/">> \o ETagHeader(LandingNode.file_hash)}

\* the mtime of the files
IfModifiedSinceValues == {NoStr, Sun03}

\* no Range header, or everything after the first byte
RangeValues == {NoStr, BytesEq \o <<"1", "-">>}

RawRequests ==
    [method : Methods, path : Paths, version : Versions, host : Hosts,
     connection : ConnectionValues, upgrade : UpgradeValues,
     if_none_match : IfNoneMatchValues,
     if_modified_since : IfModifiedSinceValues, range : RangeValues]

\* the header block is written, or send()/SSL_write() fails on it
NetOutcomes == {NetOk, NetSendFails}

\* nothing has been read from the transport
NoReq == [raw |-> "none"]

(***************************************************************************)
(* One worker serving one connection after another                         *)
(***************************************************************************)
\* a 200/206 whose header block went out with an ETag
EmitsETag(out) ==
    /\ out # NoOutcome
    /\ out.response.status \in {200, 206}
    /\ out.response.delivered
    /\ out.response.etag # NoStr

\* main.c:103-253  the worker runs the handler on the connection it was
\* given: it reads one request, answers it, and falls through to cleanup
\* (main.c:242-252), which closes the transport
PipeHandle ==
    /\ ppc = "idle"
    /\ \E raw \in RawRequests, ssl \in BOOLEAN, net \in NetOutcomes :
         LET out == handle_client_thread(raw, ssl, Worlds[world].tree, Worlds[world].fs, net)
         IN  /\ req' = [raw |-> raw, ssl |-> ssl, net |-> net]
             /\ resp' = out
    /\ sockOpen' = FALSE
    /\ ppc' = "done"
    /\ UNCHANGED <<world, emitted, serverVars, inputVars>>

\* main.c:117-120  recv_len <= 0: nothing is parsed, straight to cleanup
PipeRecvNothing ==
    /\ ppc = "idle"
    /\ req' = NoReq
    /\ resp' = NoOutcome
    /\ sockOpen' = FALSE
    /\ ppc' = "done"
    /\ UNCHANGED <<world, emitted, serverVars, inputVars>>

\* thread_pool.c:74-89  the worker takes the next queued connection: a new
\* transport, accepted by the acceptor
PipeNextConnection ==
    /\ ppc = "done"
    /\ ppc' = "idle"
    /\ sockOpen' = TRUE
    /\ emitted' = IF EmitsETag(resp)
                  THEN emitted \cup {<<req.raw.path, resp.response.etag>>}
                  ELSE emitted
    /\ req' = NoReq
    /\ resp' = NoOutcome
    /\ UNCHANGED <<world, serverVars, inputVars>>

PipeQuiet ==
    /\ ppc = "idle"
    /\ req = NoReq
    /\ resp = NoOutcome
    /\ sockOpen = TRUE
    /\ emitted = {}

\* nothing has been read, no range is asked for, no build is under way
NoBuffer == <<>>

NoRange == [form |-> "none"]

NoCatalog == [built |-> FALSE]

NoInputs ==
    /\ g_config = DefaultConfig
    /\ char_is_signed = AsciiBuild
    /\ buffer = NoBuffer
    /\ fileSize = 0
    /\ rangeIn = NoRange
    /\ listing = <<>>
    /\ catalog = NoCatalog

(***************************************************************************)
(* The request buffer: lines and tokens                                    *)
(***************************************************************************)
\* the most lines in a buffer
MaxLines == 3

\* request_buffer is written as the sequence of the lines that CRLF ends:
\* an empty line, a line of blank-separated tokens (none for a line of
\* blanks), or a header line "Name: value"
BlankLine == [kind |-> "blank"]

TokenLine(tokens) == [kind |-> "request", tokens |-> tokens]

HeaderLine(name, value) == [kind |-> "header", name |-> name, value |-> value]

\* the lines a client writes: request lines with zero to three tokens, a
\* Host header, the empty line
BufferLines ==
    {BlankLine, HeaderLine("Host", <<"h">>),
     TokenLine(<<>>), TokenLine(<<"GET">>), TokenLine(<<"GET", <<"/">>>>)}
    \cup {TokenLine(<<"GET", <<"/">>, v>>) : v \in Versions}

Buffers == UNION { [1..n -> BufferLines] : n \in 1..MaxLines }

\* request.c:61, 98  strtok_r(..., "\r\n", &saveptr) steps over every run of
\* CR and LF: the lines it returns are the lines that are not empty
NonEmptyLines(buf) == SelectSeq(buf, LAMBDA l : l.kind # "blank")

\* request.c:72-74  the tokens strtok_r(line, " ") finds in a line; a header
\* line read as a request line gives its name with the colon, then its value
TokensOf(line) ==
    IF line.kind = "request" THEN line.tokens
    ELSE <<CASE line.name = "Host" -> "Host:", line.value>>

\* request.c:126-128  the value of the last line that starts with "Name: ",
\* NULL without such a line
RECURSIVE HeaderValue(_, _, _, _)
HeaderValue(lines, i, name, found) ==
    IF i > Len(lines) THEN found
    ELSE HeaderValue(lines, i + 1, name,
                     IF lines[i].kind = "header" /\ lines[i].name = name
                     THEN lines[i].value ELSE found)

\* request.c:59-101  the request line and the header lines as the two
\* strtok_r loops of parse_http_request read them out of the buffer
ReadRequest(buf) ==
    LET lines  == NonEmptyLines(buf)
        tokens == IF lines = <<>> THEN <<>> ELSE TokensOf(lines[1])
    IN  [method  |-> IF Len(tokens) >= 1 THEN tokens[1] ELSE "",
         path    |-> IF Len(tokens) >= 2 THEN tokens[2] ELSE NoStr,
         version |-> IF Len(tokens) >= 3 THEN tokens[3] ELSE "",
         host    |-> HeaderValue(lines, 2, "Host", NoStr),
         connection |-> NoStr, upgrade |-> NoStr, if_none_match |-> NoStr,
         if_modified_since |-> NoStr, range |-> NoStr]

\* main.c:103-253  the worker parses the buffer recv() filled, answers, and
\* closes
ParseHandle ==
    /\ ppc = "idle"
    /\ buffer # NoBuffer
    /\ \E ssl \in BOOLEAN :
         /\ req' = [raw |-> ReadRequest(buffer), ssl |-> ssl, net |-> NetOk]
         /\ resp' = handle_client_thread(ReadRequest(buffer), ssl,
                                         Worlds[world].tree, Worlds[world].fs, NetOk)
    /\ sockOpen' = FALSE
    /\ ppc' = "done"
    /\ UNCHANGED <<world, emitted, serverVars, inputVars>>

(***************************************************************************)
(* Range requests against files of every size                              *)
(***************************************************************************)
\* the largest file, in bytes
MaxFileSize == 3

\* the largest number written in a Range header
MaxRangeNum == 4

\* a file of n bytes, each different from the others
FileBytes(n) == [i \in 1..n |-> 64 + i]

FileA == SERVER_PATH \o WebpagesDir \o <<"/", "a">>

\* the document root with the file "a" of n bytes
RangeFs(n) ==
    { [path |-> SERVER_PATH \o WebpagesDir, kind |-> "dir", readable |-> TRUE,
       size |-> 2, bytes |-> <<>>],
      [path |-> FileA, kind |-> "file", readable |-> TRUE,
       size |-> n, bytes |-> FileBytes(n)] }

\* bytes=s-e, bytes=s- and bytes=-k
RangeForms ==
    [form : {"closed"}, s : 0..MaxRangeNum, e : 0..MaxRangeNum]
    \cup [form : {"open"}, s : 0..MaxRangeNum]
    \cup [form : {"suffix"}, k : 0..MaxRangeNum]

\* the value of the Range header as the client writes it
RangeHeader(r) ==
    BytesEq \o
    (CASE r.form = "closed" -> FormatUnsigned(r.s) \o <<"-">> \o FormatUnsigned(r.e)
       [] r.form = "open"   -> FormatUnsigned(r.s) \o <<"-">>
       [] r.form = "suffix" -> <<"-">> \o FormatUnsigned(r.k))

RangeRequest(method, r) ==
    [method |-> method, path |-> <<"/", "a">>, version |-> "HTTP/1.1",
     host |-> <<"h">>, connection |-> NoStr, upgrade |-> NoStr,
     if_none_match |-> NoStr, if_modified_since |-> NoStr,
     range |-> RangeHeader(r)]

\* main.c:103-253  the worker answers a GET or HEAD for "a" that carries the
\* Range header, and closes
RangeHandle ==
    /\ ppc = "idle"
    /\ rangeIn # NoRange
    /\ \E method \in {"GET", "HEAD"} :
         LET raw == RangeRequest(method, rangeIn)
         IN  /\ req' = [raw |-> raw, ssl |-> FALSE, net |-> NetOk]
             /\ resp' = handle_client_thread(
                            raw, FALSE,
                            <<MakeNode(FileA, FileBytes(fileSize), Sun03)>>,
                            RangeFs(fileSize), NetOk)
    /\ sockOpen' = FALSE
    /\ ppc' = "done"
    /\ UNCHANGED <<world, emitted, serverVars, inputVars>>

(***************************************************************************)
(* Body writes that fail                                                   *)
(***************************************************************************)
\* errno after a failed send/SSL_write: the peer reset the connection, the
\* peer closed it, or something else
WriteErrnos == {"ECONNRESET", "EPIPE", "EIO"}

\* every write succeeds, or the k-th write of the body fails, or it takes
\* less than it was given, or the k-th read returns less than it could
BodyNets ==
    {NetOk} \cup {BodyWriteFails(k, e) : k \in 1..MaxFileSize, e \in WriteErrnos}
            \cup {BodyWriteShort(k) : k \in 1..MaxFileSize}
            \cup {BodyReadShort(k) : k \in 1..MaxFileSize}

BodyRequest(method, connection) ==
    [method |-> method, path |-> <<"/", "a">>, version |-> "HTTP/1.1",
     host |-> <<"h">>, connection |-> connection, upgrade |-> NoStr,
     if_none_match |-> NoStr, if_modified_since |-> NoStr, range |-> NoStr]

\* main.c:103-253  the worker answers a GET or HEAD for "a" on a transport
\* whose body writes may fail, and closes.  SSL_write takes the whole buffer
\* or fails (no partial-write mode is set), so a short write happens on the
\* cleartext transport only.
BodyHandle ==
    /\ ppc = "idle"
    /\ \E method \in {"GET", "HEAD"}, connection \in {NoStr, KeepAliveStr},
          ssl \in BOOLEAN, net \in BodyNets :
         LET raw == BodyRequest(method, connection)
         IN  /\ ssl => net.short_write_at = 0
             /\ req' = [raw |-> raw, ssl |-> ssl, net |-> net]
             /\ resp' = handle_client_thread(
                            raw, ssl,
                            <<MakeNode(FileA, FileBytes(fileSize), Sun03)>>,
                            RangeFs(fileSize), net)
    /\ sockOpen' = FALSE
    /\ ppc' = "done"
    /\ UNCHANGED <<world, emitted, serverVars, inputVars>>

(***************************************************************************)
(* Conditional requests                                                    *)
(***************************************************************************)
\* dates as update_last_modified (node.c:252-271) formats them, cut after the
\* day of the month: the day before Sun03 and the two days after it
Sat02 == <<"S", "a", "t", ",", " ", "0", "2">>

Mon04 == <<"M", "o", "n", ",", " ", "0", "4">>

Tue05 == <<"T", "u", "e", ",", " ", "0", "5">>

\* node.c:146  the node of "a" when update_last_modified returned NULL
FileANode_NoDate == MakeNode(FileA, <<97>>, NoStr)

\* the states of the document root and of the catalog a conditional request
\* can meet: everything cataloged; "a" deleted after the build; "a" cataloged
\* without last_modified; "a" created after the build; a NULL tree
CondWorlds ==
    << [fs |-> FsEntries(TRUE), tree |-> insert_node(<<LandingNode>>, FileANode)],
       [fs |-> {f \in FsEntries(TRUE) : f.path # FileA},
        tree |-> insert_node(<<LandingNode>>, FileANode)],
       [fs |-> FsEntries(TRUE), tree |-> insert_node(<<LandingNode>>, FileANode_NoDate)],
       [fs |-> FsEntries(TRUE), tree |-> <<LandingNode>>],
       [fs |-> FsEntries(TRUE), tree |-> <<>>] >>

\* no header, an empty value, and the four dates
CondSinceValues == {NoStr, <<>>, Sat02, Sun03, Mon04, Tue05}

\* no header, the ETag of "a" and the ETag of the landing page
CondNoneMatchValues ==
    {NoStr, ETagHeader(FileANode.file_hash), ETagHeader(LandingNode.file_hash)}

CondRequest(method, path, since, none_match, upgrade) ==
    [method |-> method, path |-> path, version |-> "HTTP/1.1",
     host |-> <<"h">>, connection |-> NoStr, upgrade |-> upgrade,
     if_none_match |-> none_match, if_modified_since |-> since,
     range |-> NoStr]

\* main.c:103-253  the worker answers a GET or HEAD that carries validators,
\* and closes
CondHandle ==
    /\ ppc = "idle"
    /\ \E method \in {"GET", "HEAD"}, path \in Paths, since \in CondSinceValues,
          none_match \in CondNoneMatchValues, upgrade \in UpgradeValues,
          ssl \in BOOLEAN :
         LET raw == CondRequest(method, path, since, none_match, upgrade)
         IN  /\ req' = [raw |-> raw, ssl |-> ssl, net |-> NetOk]
             /\ resp' = handle_client_thread(raw, ssl, CondWorlds[world].tree,
                                             CondWorlds[world].fs, NetOk)
    /\ sockOpen' = FALSE
    /\ ppc' = "done"
    /\ UNCHANGED <<world, emitted, serverVars, inputVars>>

(***************************************************************************)
(* Building the catalog from what `find` lists                             *)
(***************************************************************************)
\* the longest listing
MaxListing == 3

\* the files that can be under the document root, by request target
BuildTargets == {<<"/", "a">>, <<"/", "b">>, VideosDir \o <<"v">>}

\* one line of results.txt and the file it names: the content of a file is
\* the last character of its name
ListedFiles ==
    { [path |-> SERVER_PATH \o WebpagesDir \o t, readable |-> r,
       bytes |-> <<Code(t[Len(t)])>>] : t \in BuildTargets, r \in BOOLEAN }

\* the listings find can print: every order of every choice of the files
Listings ==
    UNION { { l \in [1..n -> ListedFiles] :
                \A i, j \in 1..n : i # j => l[i].path # l[j].path }
            : n \in 1..MaxListing }

\* the document root that holds the listed files
BuildFs(lines) ==
    { [path |-> SERVER_PATH \o WebpagesDir, kind |-> "dir", readable |-> TRUE,
       size |-> 2, bytes |-> <<>>] }
    \cup { [path |-> lines[i].path, kind |-> "file",
            readable |-> lines[i].readable, size |-> Len(lines[i].bytes),
            bytes |-> lines[i].bytes] : i \in 1..Len(lines) }

\* the request target of a listed file
TargetOf(file) ==
    SubSeq(file.path, Len(SERVER_PATH \o WebpagesDir) + 1, Len(file.path))

\* cache.c:49-52, main.c:345-349  the catalog is built at startup; main
\* returns 1 when the tree is NULL, and serves from it otherwise
cache_tree_init ==
    /\ ppc = "idle"
    /\ ~catalog.built
    /\ catalog' = [built |-> TRUE, head |-> init_tree(listing, Sun03),
                   serving |-> init_tree(listing, Sun03) # <<>>]
    /\ UNCHANGED <<serverVars, world, ppc, req, resp, sockOpen, emitted,
                   g_config, char_is_signed, buffer, fileSize,
                   rangeIn, listing>>

\* cache.c:71-77, main.c:411-421  the files changed and a refresh rebuilds
\* the catalog from the new listing; the acceptor goes on with whatever
\* tree it got, NULL included
cache_tree_refresh ==
    /\ ppc = "idle"
    /\ catalog.built
    /\ catalog.serving
    /\ \E l \in Listings :
         /\ listing' = l
         /\ catalog' = [built |-> TRUE, head |-> init_tree(l, Sun03),
                        serving |-> TRUE]
    /\ UNCHANGED <<serverVars, world, ppc, req, resp, sockOpen, emitted,
                   g_config, char_is_signed, buffer, fileSize,
                   rangeIn>>

\* main.c:103-253  a worker answers a GET for one of the listed files from
\* the catalog that was built, and closes
BuildHandle ==
    /\ ppc = "idle"
    /\ catalog.built
    /\ catalog.serving
    /\ \E i \in 1..Len(listing), ssl \in BOOLEAN :
         LET raw == [method |-> "GET", path |-> TargetOf(listing[i]),
                     version |-> "HTTP/1.1", host |-> <<"h">>,
                     connection |-> NoStr, upgrade |-> NoStr,
                     if_none_match |-> NoStr, if_modified_since |-> NoStr,
                     range |-> NoStr]
         IN  /\ req' = [raw |-> raw, ssl |-> ssl, net |-> NetOk]
             /\ resp' = handle_client_thread(raw, ssl, catalog.head,
                                             BuildFs(listing), NetOk)
    /\ sockOpen' = FALSE
    /\ ppc' = "done"
    /\ UNCHANGED <<world, emitted, serverVars, inputVars>>

(***************************************************************************)
(* Files whose paths have the same path_hash                               *)
(***************************************************************************)
\* request targets of the files under the document root: "/ab" and "/bA"
\* have the same djb2 value (97 * 33 + 98 = 98 * 33 + 65)
SameHashTargets == {<<"/", "a", "b">>, <<"/", "b", "A">>, <<"/", "c">>}

\* the files, all readable: the content of a file is the last character of
\* its name
SameHashFiles ==
    { [path |-> SERVER_PATH \o WebpagesDir \o t, readable |-> TRUE,
       bytes |-> <<Code(t[Len(t)])>>] : t \in SameHashTargets }

\* the listings find can print: every order of every choice of the files
SameHashListings ==
    UNION { { l \in [1..n -> SameHashFiles] :
                \A i, j \in 1..n : i # j => l[i].path # l[j].path }
            : n \in 1..MaxListing }

\* main.c:103-253  a worker answers a GET or HEAD for one of the listed
\* files, with or without the ETag of one of them in If-None-Match, from the
\* catalog that was built, and closes
SameHashHandle ==
    /\ ppc = "idle"
    /\ catalog.built
    /\ catalog.serving
    /\ \E i \in 1..Len(listing), method \in {"GET", "HEAD"}, ssl \in BOOLEAN,
          none_match \in {NoStr} \cup {ETagHeader(hashFile(f.bytes)) : f \in SameHashFiles} :
         LET raw == [method |-> method, path |-> TargetOf(listing[i]),
                     version |-> "HTTP/1.1", host |-> <<"h">>,
                     connection |-> NoStr, upgrade |-> NoStr,
                     if_none_match |-> none_match, if_modified_since |-> NoStr,
                     range |-> NoStr]
         IN  /\ req' = [raw |-> raw, ssl |-> ssl, net |-> NetOk]
             /\ resp' = handle_client_thread(raw, ssl, catalog.head,
                                             BuildFs(listing), NetOk)
    /\ sockOpen' = FALSE
    /\ ppc' = "done"
    /\ UNCHANGED <<world, emitted, serverVars, inputVars>>

(***************************************************************************)
(* add_node called on one file after another                               *)
(***************************************************************************)
\* the most calls of add_node
MaxAdds == 3

\* request targets of the files handed to add_node: "/ab" and "/bA" have
\* the same djb2 value (97 * 33 + 98 = 98 * 33 + 65)
TreeTargets == {<<"/", "a", "b">>, <<"/", "b", "A">>, <<"/", "c">>, <<"/", "d">>}

TreeFiles ==
    { [path |-> SERVER_PATH \o WebpagesDir \o t, readable |-> r,
       bytes |-> <<Code(t[Len(t)])>>] : t \in TreeTargets, r \in BOOLEAN }

\* the tree under construction
Building(head) == [built |-> FALSE, head |-> head]

\* node.c:65-76  head = add_node(head, line): one more file is handed to
\* add_node and the caller keeps what it returns
AddNodeCall ==
    /\ ppc = "idle"
    /\ "head" \in DOMAIN catalog
    /\ Len(listing) < MaxAdds
    /\ \E f \in TreeFiles :
         /\ listing' = Append(listing, f)
         /\ catalog' = Building(add_node(catalog.head, f, Sun03))
    /\ UNCHANGED <<serverVars, world, ppc, req, resp, sockOpen, emitted,
                   g_config, char_is_signed, buffer, fileSize,
                   rangeIn>>

\* the tags looked up: the path_hash of every file that can be in the tree,
\* and 0
LookupTags ==
    {hashPath(SERVER_PATH \o WebpagesDir \o t) : t \in TreeTargets} \cup {<<0, 0>>}

\* what a lookup was called with and what it returned
Looked(tag, node) == [tag |-> tag, node |-> node]

\* node.c:360-378  lookupNode(head, tag) on the tree as it stands; the walk
\* reads the nodes and stores nothing
LookupCall ==
    /\ ppc = "idle"
    /\ "head" \in DOMAIN catalog
    /\ \E tag \in LookupTags :
         resp' = Looked(tag, lookupNode(catalog.head, tag))
    /\ UNCHANGED <<serverVars, world, ppc, req, sockOpen, emitted, inputVars>>

(***************************************************************************)
(* hashFile on one file                                                    *)
(***************************************************************************)
\* the most bytes in a hashed file
MaxHashLen == 2

\* byte values at both ends of 0..255 and on both sides of 128
ByteValues == {0, 1, 127, 128, 255}

HashContents ==
    UNION { [1..n -> ByteValues] : n \in 0..MaxHashLen }

HashFiles ==
    { [path |-> FileA, readable |-> r, bytes |-> b] :
        r \in BOOLEAN, b \in HashContents }

\* node.c:137-143  add_node hashes the file and stores what hashFile gives
HashFileCall ==
    /\ ppc = "idle"
    /\ catalog = NoCatalog
    /\ listing # <<>>
    /\ catalog' = Building(add_node(<<>>, listing[1], Sun03))
    /\ UNCHANGED <<serverVars, world, ppc, req, resp, sockOpen, emitted,
                   g_config, char_is_signed, buffer, fileSize, rangeIn,
                   listing>>

(***************************************************************************)
(* The worker runs the handler on the connection it dequeued               *)
(***************************************************************************)
HandlerRun(method, path, version, since, upgrade, ssl, w, net) ==
    [raw |-> [method |-> method, path |-> path, version |-> version,
              host |-> <<"h">>, connection |-> NoStr, upgrade |-> upgrade,
              if_none_match |-> NoStr, if_modified_since |-> since,
              range |-> NoStr],
     ssl |-> ssl, world |-> w, net |-> net]

\* one request for each way out of handle_client_thread: parse error,
\* redirect, OPTIONS, 501, 403 on the path, 304, 404, 403 on open, a file
\* response on either transport, and a file response whose header block or
\* whose body cannot be written
HandlerRuns ==
    { HandlerRun("GET", <<"/">>, "HTTP/2.0", NoStr, NoStr, FALSE, 1, NetOk),
      HandlerRun("GET", <<"/">>, "HTTP/1.1", NoStr, <<"1">>, FALSE, 1, NetOk),
      HandlerRun("OPTIONS", <<"/">>, "HTTP/1.1", NoStr, NoStr, FALSE, 1, NetOk),
      HandlerRun("POST", <<"/">>, "HTTP/1.1", NoStr, NoStr, FALSE, 1, NetOk),
      HandlerRun("GET", <<"/", ".", ".">>, "HTTP/1.1", NoStr, NoStr, FALSE, 1, NetOk),
      HandlerRun("GET", <<"/">>, "HTTP/1.1", Sun03, NoStr, TRUE, 1, NetOk),
      HandlerRun("GET", <<"/", "x">>, "HTTP/1.1", NoStr, NoStr, FALSE, 1, NetOk),
      HandlerRun("GET", <<"/", "a">>, "HTTP/1.1", NoStr, NoStr, FALSE, 3, NetOk),
      HandlerRun("GET", <<"/">>, "HTTP/1.1", NoStr, NoStr, FALSE, 1, NetOk),
      HandlerRun("HEAD", <<"/">>, "HTTP/1.1", NoStr, NoStr, TRUE, 1, NetOk),
      HandlerRun("GET", <<"/">>, "HTTP/1.1", NoStr, NoStr, FALSE, 1, NetSendFails),
      HandlerRun("GET", <<"/">>, "HTTP/1.1", NoStr, NoStr, TRUE, 1,
                 BodyWriteFails(1, "EPIPE")) }

\* what the handler can have done when it reaches cleanup: nothing, when
\* the read failed (main.c:117-120), or the outcome of one of the runs
HandlerOutcomes ==
    {NoOutcome}
    \cup { handle_client_thread(r.raw, r.ssl, Worlds[r.world].tree,
                                Worlds[r.world].fs, r.net) : r \in HandlerRuns }

\* the handler opened the requested file and no free_client closed it
FdLeftOpen(out) == "fd" \in out.reached /\ "close_fd" \notin out.reached

cleanup_SocketClosedBefore(cl) == Append(Append(cl, "worker"), "worker")

\* main.c:239-250  cleanup: SSL_shutdown and SSL_free for TLS, then
\* close(args->client_fd) and free(args)
cleanup(cl) == Append(cl, "worker")

\* worker_thread, lines 87-89: item->func(item->arg); free(item).
\* handle_client_thread serves the request and, at cleanup, closes the
\* transport and frees its ThreadArgs (main.c:239-252).
WorkerReturns(w) ==
    /\ wpc[w] = "exec"
    /\ closes' = [closes EXCEPT ![witem[w].conn] = cleanup(@)]
    /\ connState' = [connState EXCEPT ![witem[w].conn] = "closed_by_worker"]
    /\ wpc' = [wpc EXCEPT ![w] = "finish"]
    /\ UNCHANGED <<poolVars, witem, mainVars>>
    /\ UNCHANGED <<treeFreed, nTrees, nConn, freedUnexecuted, refreshOwed>>

\* the step with the handler left out: what it does to the descriptor of
\* the requested file is not followed
WorkerExec(w) ==
    /\ WorkerReturns(w)
    /\ UNCHANGED fdLeft

\* the step with the handler run on one of HandlerRuns, or on a read that
\* failed
WorkerServe(w) ==
    /\ WorkerReturns(w)
    /\ \E out \in HandlerOutcomes :
          fdLeft' = IF FdLeftOpen(out) THEN fdLeft \cup {witem[w].conn} ELSE fdLeft

(***************************************************************************)
(* The specifications                                                      *)
(***************************************************************************)
vars == <<serverVars, pipeVars>>

\* the acceptor and the worker pool, over a fixed document root
Init ==
    /\ ServerInit
    /\ world = 1
    /\ PipeQuiet
    /\ NoInputs

Next ==
    \/ MainLoopTop /\ UNCHANGED pipeVars
    \/ MainRefreshWait /\ UNCHANGED pipeVars
    \/ MainRefreshFree /\ UNCHANGED pipeVars
    \/ MainRefreshInit /\ UNCHANGED pipeVars
    \/ MainSelect /\ UNCHANGED pipeVars
    \/ MainHttp /\ UNCHANGED pipeVars
    \/ MainHttps /\ UNCHANGED pipeVars
    \/ MainShutdownWait /\ UNCHANGED pipeVars
    \/ MainSpuriousWake /\ UNCHANGED pipeVars
    \/ MainDestroy /\ UNCHANGED pipeVars
    \/ MainJoin /\ UNCHANGED pipeVars
    \/ MainCacheFree /\ UNCHANGED pipeVars
    \/ SigShutdown /\ UNCHANGED pipeVars
    \/ SigRefresh /\ UNCHANGED pipeVars
    \/ \E w \in Workers : WorkerLock(w) /\ UNCHANGED pipeVars
    \/ \E w \in Workers : WorkerSpuriousWake(w) /\ UNCHANGED pipeVars
    \/ \E w \in Workers : WorkerExec(w) /\ UNCHANGED pipeVars
    \/ \E w \in Workers : WorkerFinish(w) /\ UNCHANGED pipeVars

Spec == Init /\ [][Next]_vars

\* the workers are scheduled fairly and handle_client_thread terminates
LiveSpec == Init /\ [][Next]_vars
            /\ \A w \in Workers : /\ WF_vars(WorkerLock(w) /\ UNCHANGED pipeVars)
                                  /\ WF_vars(WorkerExec(w) /\ UNCHANGED pipeVars)
                                  /\ WF_vars(WorkerFinish(w) /\ UNCHANGED pipeVars)

\* the acceptor and the workers with the handler run by each worker, and no
\* catalog refresh
CloseNext ==
    \/ MainLoopTop /\ UNCHANGED pipeVars
    \/ MainSelect /\ UNCHANGED pipeVars
    \/ MainHttp /\ UNCHANGED pipeVars
    \/ MainHttps /\ UNCHANGED pipeVars
    \/ MainShutdownWait /\ UNCHANGED pipeVars
    \/ MainSpuriousWake /\ UNCHANGED pipeVars
    \/ MainDestroy /\ UNCHANGED pipeVars
    \/ MainJoin /\ UNCHANGED pipeVars
    \/ MainCacheFree /\ UNCHANGED pipeVars
    \/ SigShutdown /\ UNCHANGED pipeVars
    \/ \E w \in Workers : WorkerLock(w) /\ UNCHANGED pipeVars
    \/ \E w \in Workers : WorkerSpuriousWake(w) /\ UNCHANGED pipeVars
    \/ \E w \in Workers : WorkerServe(w) /\ UNCHANGED pipeVars
    \/ \E w \in Workers : WorkerFinish(w) /\ UNCHANGED pipeVars

CloseSpec == Init /\ [][CloseNext]_vars

\* the steps of the main thread
MainStep ==
    \/ MainLoopTop
    \/ MainRefreshWait
    \/ MainRefreshFree
    \/ MainRefreshInit
    \/ MainSelect
    \/ MainHttp
    \/ MainHttps
    \/ MainShutdownWait
    \/ MainSpuriousWake
    \/ MainDestroy
    \/ MainJoin
    \/ MainCacheFree

\* The main thread and the workers are scheduled fairly.  WorkerExec is the
\* run of handle_client_thread, which begins with recv/SSL_read on a
\* blocking socket (main.c:110-114); no receive timeout is set on it, so it
\* returns when the client sends or closes, which no scheduling of the
\* server brings about: WorkerExec gets no fairness condition.
ShutdownSpec ==
    /\ Init /\ [][Next]_vars
    /\ WF_vars(MainStep /\ UNCHANGED pipeVars)
    /\ \A w \in Workers : /\ WF_vars(WorkerLock(w) /\ UNCHANGED pipeVars)
                          /\ WF_vars(WorkerFinish(w) /\ UNCHANGED pipeVars)

\* the acceptor and the pool with SIGUSR1 arriving at any time, the main
\* thread and the workers scheduled fairly and every handler returning
RefreshNext ==
    \/ Next
    \/ SigRefreshAgain /\ UNCHANGED pipeVars

RefreshSpec ==
    /\ Init /\ [][RefreshNext]_vars
    /\ WF_vars(MainStep /\ UNCHANGED pipeVars)
    /\ \A w \in Workers : /\ WF_vars(WorkerLock(w) /\ UNCHANGED pipeVars)
                          /\ WF_vars(WorkerExec(w) /\ UNCHANGED pipeVars)
                          /\ WF_vars(WorkerFinish(w) /\ UNCHANGED pipeVars)

\* the steps the main thread takes by itself: a spurious return of
\* pthread_cond_wait is something that may happen, never something the
\* waiter can count on
MainRuns ==
    \/ MainLoopTop
    \/ MainRefreshWait
    \/ MainRefreshFree
    \/ MainRefreshInit
    \/ MainSelect
    \/ MainHttp
    \/ MainHttps
    \/ MainShutdownWait
    \/ MainDestroy
    \/ MainJoin
    \/ MainCacheFree

\* the main thread and the workers are scheduled fairly and every handler
\* returns; a thread inside pthread_cond_wait goes on only when signalled
WaitSpec ==
    /\ Init /\ [][Next]_vars
    /\ WF_vars(MainRuns /\ UNCHANGED pipeVars)
    /\ \A w \in Workers : /\ WF_vars(WorkerLock(w) /\ UNCHANGED pipeVars)
                          /\ WF_vars(WorkerExec(w) /\ UNCHANGED pipeVars)
                          /\ WF_vars(WorkerFinish(w) /\ UNCHANGED pipeVars)

\* a queue limit that lets accepted items wait behind one another
DeepQueueSize == MaxQueueSize + 1

\* the acceptor and the pool with that limit
QueueInit ==
    /\ ServerInit
    /\ world = 1
    /\ PipeQuiet
    /\ g_config = [DefaultConfig EXCEPT !.max_queue_size = DeepQueueSize]
    /\ char_is_signed = AsciiBuild
    /\ buffer = NoBuffer
    /\ fileSize = 0
    /\ rangeIn = NoRange
    /\ listing = <<>>
    /\ catalog = NoCatalog

QueueSpec == QueueInit /\ [][Next]_vars

\* the request pipeline of one worker, the pool left as constructed
PipeInit ==
    /\ ServerInit
    /\ world \in DOMAIN Worlds
    /\ PipeQuiet
    /\ NoInputs

PipeNext ==
    \/ PipeHandle
    \/ PipeRecvNothing
    \/ PipeNextConnection

PipeSpec == PipeInit /\ [][PipeNext]_vars

\* one buffer parsed and answered, for every buffer
ParseInit ==
    /\ ServerInit
    /\ world = 1
    /\ PipeQuiet
    /\ g_config = DefaultConfig
    /\ char_is_signed = AsciiBuild
    /\ buffer \in Buffers
    /\ fileSize = 0
    /\ rangeIn = NoRange
    /\ listing = <<>>
    /\ catalog = NoCatalog

ParseNext == ParseHandle

ParseSpec == ParseInit /\ [][ParseNext]_vars

\* one range request against one file, for every range and file size
RangeInit ==
    /\ ServerInit
    /\ world = 1
    /\ PipeQuiet
    /\ g_config = DefaultConfig
    /\ char_is_signed = AsciiBuild
    /\ buffer = NoBuffer
    /\ fileSize \in 0..MaxFileSize
    /\ rangeIn \in RangeForms
    /\ listing = <<>>
    /\ catalog = NoCatalog

RangeNext == RangeHandle

RangeSpec == RangeInit /\ [][RangeNext]_vars

\* one request for a file of every size on a transport of every kind
BodyInit ==
    /\ ServerInit
    /\ world = 1
    /\ PipeQuiet
    /\ g_config = DefaultConfig
    /\ char_is_signed = AsciiBuild
    /\ buffer = NoBuffer
    /\ fileSize \in 0..MaxFileSize
    /\ rangeIn = NoRange
    /\ listing = <<>>
    /\ catalog = NoCatalog

BodyNext == BodyHandle

BodySpec == BodyInit /\ [][BodyNext]_vars

\* the catalog build over listings of files with colliding paths, and the
\* requests served from it
SameHashInit ==
    /\ ServerInit
    /\ world = 1
    /\ PipeQuiet
    /\ g_config = DefaultConfig
    /\ char_is_signed = AsciiBuild
    /\ buffer = NoBuffer
    /\ fileSize = 0
    /\ rangeIn = NoRange
    /\ listing \in SameHashListings
    /\ catalog = NoCatalog

SameHashNext ==
    \/ cache_tree_init
    \/ SameHashHandle

SameHashSpec == SameHashInit /\ [][SameHashNext]_vars

\* one conditional request in every state of the document root
CondInit ==
    /\ ServerInit
    /\ world \in 1..Len(CondWorlds)
    /\ PipeQuiet
    /\ NoInputs

CondNext == CondHandle

CondSpec == CondInit /\ [][CondNext]_vars

\* the catalog build over every listing, and the requests served from it
BuildInit ==
    /\ ServerInit
    /\ world = 1
    /\ PipeQuiet
    /\ g_config = DefaultConfig
    /\ char_is_signed = AsciiBuild
    /\ buffer = NoBuffer
    /\ fileSize = 0
    /\ rangeIn = NoRange
    /\ listing \in Listings
    /\ catalog = NoCatalog

BuildNext ==
    \/ cache_tree_init
    \/ cache_tree_refresh
    \/ BuildHandle

BuildSpec == BuildInit /\ [][BuildNext]_vars

\* any sequence of add_node calls, from the NULL tree on
TreeInit ==
    /\ ServerInit
    /\ world = 1
    /\ PipeQuiet
    /\ g_config = DefaultConfig
    /\ char_is_signed = AsciiBuild
    /\ buffer = NoBuffer
    /\ fileSize = 0
    /\ rangeIn = NoRange
    /\ listing = <<>>
    /\ catalog = Building(<<>>)

TreeNext ==
    \/ AddNodeCall
    \/ LookupCall

\* one file of any content hashed by a build of either kind
HashInit ==
    /\ ServerInit
    /\ world = 1
    /\ PipeQuiet
    /\ g_config = DefaultConfig
    /\ char_is_signed \in BOOLEAN
    /\ buffer = NoBuffer
    /\ fileSize = 0
    /\ rangeIn = NoRange
    /\ \E f \in HashFiles : listing = <<f>>
    /\ catalog = NoCatalog

HashNext == HashFileCall

HashSpec == HashInit /\ [][HashNext]_vars

\* the server started with or without -w: the catalog build over every
\* listing, and the requests served from it
ConfigInit ==
    /\ ServerInit
    /\ world = 1
    /\ PipeQuiet
    /\ g_config \in {[DefaultConfig EXCEPT !.webroot = r] : r \in Webroots}
    /\ char_is_signed = AsciiBuild
    /\ buffer = NoBuffer
    /\ fileSize = 0
    /\ rangeIn = NoRange
    /\ listing \in Listings
    /\ catalog = NoCatalog

ConfigNext ==
    \/ cache_tree_init
    \/ cache_tree_refresh
    \/ BuildHandle

ConfigSpec == ConfigInit /\ [][ConfigNext]_vars

TreeSpec == TreeInit /\ [][TreeNext]_vars

(***************************************************************************)
(* Claims about the worker pool and the acceptor                           *)
(***************************************************************************)
QueuedConns == {work_queue[i].conn : i \in 1..Len(work_queue)}

HeldConns == {witem[w].conn : w \in {v \in Workers : wpc[v] \in {"exec", "finish"}}}

Executing == {w \in Workers : wpc[w] = "exec"}

ClosedByAcceptor == Refused \cup {"dropped"}

\* a step in which main accepted connection c and called threadpool_add_work
SubmitStep(c) ==
    /\ nConn = c - 1
    /\ nConn' = c
    /\ connState'[c] # "dropped"

\* C1: with max_queue_size M > 0 the queue never holds more than M items, and
\* a threadpool_add_work call made while the queue holds M items fails and
\* leaves the queue contents and its length unchanged.
C1_BoundedQueue ==
    /\ [](Len(work_queue) <= MaxQueueSize /\ queue_size <= MaxQueueSize)
    /\ [][\A c \in Conns :
            (SubmitStep(c) /\ Len(work_queue) >= MaxQueueSize)
               => /\ connState'[c] \in Refused
                  /\ work_queue' = work_queue
                  /\ queue_size' = queue_size]_vars

\* a submit was rejected because the queue was full, and the queue is still full
C1_Witness ==
    /\ \E c \in Conns : connState[c] = "refused_full"
    /\ Len(work_queue) = MaxQueueSize

\* C2: whenever threadpool_add_work fails for a freshly accepted connection,
\* the acceptor closes the connection in the same step (no blocking, no
\* retry), no worker ever holds or executes an item for that connection, and
\* rejected_work grows by exactly one on a full-queue rejection and not
\* otherwise.
C2_RejectedConnectionClosed ==
    /\ [](\A c \in Conns : connState[c] \in Refused =>
              c \notin QueuedConns /\ c \notin HeldConns)
    /\ [][\A c \in Conns :
            /\ (SubmitStep(c) /\ work_queue' = work_queue)
                  => /\ connState'[c] \in Refused
                     /\ mpc' \in {"loop", "https"}
            /\ (connState[c] \in Refused) => connState'[c] = connState[c]
            /\ (connState[c] = "none" /\ connState'[c] = "refused_full")
                  => rejected_work' = rejected_work + 1]_vars
    /\ [][rejected_work' # rejected_work =>
            \E c \in Conns : connState[c] = "none" /\ connState'[c] = "refused_full"]_vars

\* the latest connection was rejected on a full queue and closed by the acceptor
C2_Witness ==
    /\ nConn > 0
    /\ connState[nConn] = "refused_full"
    /\ rejected_work >= 1

C4_WaitReturnsIdle ==
    /\ (mpc \in {"refresh_free", "destroy"} =>
            /\ work_queue = <<>>
            /\ active_workers = 0
            /\ \A w \in Workers : wpc[w] \notin {"exec", "finish"})
    /\ Cardinality(Executing) <= active_workers
    /\ QueuedConns \cap HeldConns = {}

\* threadpool_wait has returned for a refresh after work was done
C4_Witness ==
    /\ mpc = "refresh_free"
    /\ completed_work >= 1

\* C5: no queued item and no worker executing a request holds a handle to a
\* freed catalog; while the catalog is rebuilt no item is queued or executed;
\* at shutdown the catalog is freed only after every worker has exited.
C5_NoStaleCatalog ==
    /\ \A i \in 1..Len(work_queue) : work_queue[i].tree \notin treeFreed
    /\ \A w \in Executing : witem[w].tree \notin treeFreed
    /\ (mpc = "refresh_init" => work_queue = <<>> /\ Executing = {})
    /\ (mpc = "done" => \A w \in Workers : wpc[w] = "exited")

\* a worker serves a request from the rebuilt catalog after the old one was freed
C5_Witness ==
    /\ treeFreed # {}
    /\ \E w \in Executing : witem[w].tree \notin {NullTree, 1}
    /\ completed_work >= 1

(***************************************************************************)
(* The request pipeline: claims                                            *)
(***************************************************************************)
\* the worker has answered a request in this state
Served == ppc = "done" /\ req # NoReq

\* the request line and the headers pass the parser: a supported version,
\* and a Host header on HTTP/1.1
WellFormed ==
    /\ req.raw.version \in {"HTTP/1.0", "HTTP/1.1"}
    /\ req.raw.version = "HTTP/1.1" => req.raw.host # NoStr

\* the target contains ".." or "//"
TraversalTarget ==
    \E i \in 1..(Len(req.raw.path) - 1) :
        \/ req.raw.path[i] = "." /\ req.raw.path[i + 1] = "."
        \/ req.raw.path[i] = "/" /\ req.raw.path[i + 1] = "/"

\* Upgrade-Insecure-Requests: 1 arrived on the cleartext transport
CleartextUpgrade ==
    ~req.ssl /\ req.raw.upgrade # NoStr /\ Head(req.raw.upgrade) = "1"

\* a 200 that declares Connection: keep-alive went out whole
KeepAliveSuccess ==
    /\ Served
    /\ resp.response.status = 200
    /\ resp.response.connection = KeepAliveStr
    /\ resp.response.delivered
    /\ resp.response.result = 0

\* C6 (as stated): after a successful 200 that declares Connection:
\* keep-alive, the worker keeps the transport open to read the next request
\* on it; the transport is closed only after a response that declared
\* Connection: close, or after an error.
C6_KeepAliveKeepsTransport ==
    /\ KeepAliveSuccess => sockOpen
    /\ (Served /\ ~sockOpen) =>
          \/ resp.response.connection # KeepAliveStr
          \/ ~resp.response.delivered
          \/ resp.response.result # 0

C8_TraversalNeverResolved ==
    (Served /\ TraversalTarget) =>
        resp.reached \cap {"resolve", "lookup", "open", "fd"} = {}

\* a parsed GET with a "//" target, stopped at the path check
C8_Witness ==
    /\ Served /\ WellFormed /\ TraversalTarget
    /\ req.raw.method = "GET"
    /\ req.raw.path = <<"/", "/">>
    /\ resp.reached = {"parse"}
    /\ resp.response.status = 403

\* C9 (as stated): every parsed OPTIONS request is answered 200 with
\* Allow: GET, HEAD, OPTIONS and an empty body, whatever its path and its
\* upgrade header; and the path check (403) comes before the redirect (301).
C9_OptionsFirst ==
    /\ (Served /\ WellFormed /\ req.raw.method = "OPTIONS") =>
          /\ resp.response.status = 200
          /\ resp.response.allow = AllowMethods
          /\ resp.response.body_kind = "none"
          /\ resp.response.content_length = 0
    /\ (Served /\ WellFormed /\ TraversalTarget /\ req.raw.method # "OPTIONS") =>
          resp.response.status # 301

\* an earlier 200/206 for the target of this request emitted the ETag that
\* this request carries in If-None-Match
RevalidatesEmitted ==
    /\ Served
    /\ <<req.raw.path, req.raw.if_none_match>> \in emitted

OtherTransport ==
    handle_client_thread(req.raw, ~req.ssl, Worlds[world].tree, Worlds[world].fs,
                         req.net)

\* the catalog entry of the target of the request of this state
TargetEntry ==
    cache_lookup(Worlds[world].tree, resolve_request_path(req.raw.path, webroot))

\* a 200, 206 or 304 whose header block went out, for a target that has a
\* catalog entry
CatalogAnswer ==
    /\ Served
    /\ resp.response.status \in {200, 206, 304}
    /\ resp.response.delivered
    /\ TargetEntry # NoNode

WithMethod(m) ==
    handle_client_thread([req.raw EXCEPT !.method = m], req.ssl,
                         Worlds[world].tree, Worlds[world].fs, req.net)

\* C15: every 4xx/5xx response carries Connection: close, and once it is
\* written the transport is closed without another request being read from
\* it, whatever Connection header and version the request had.
C15_ErrorsClose ==
    (Served /\ resp.response.status >= 400) =>
        /\ resp.response.connection = CloseStr
        /\ ~sockOpen

\* an HTTP/1.1 request that asks for keep-alive and is answered 416
C15_Witness ==
    /\ Served
    /\ req.raw.version = "HTTP/1.1"
    /\ req.raw.connection = KeepAliveStr
    /\ resp.response.status = 416
    /\ resp.response.connection = CloseStr
    /\ ~sockOpen

\* C16 (as stated): the response to HEAD has the status and the headers of
\* the response to the same request with GET, and no body bytes follow the
\* header block, on 200, 206, 304 and on the error statuses alike.
C16_HeadLikeGetNoBody ==
    (Served /\ req.raw.method = "HEAD") =>
        /\ [resp.response EXCEPT !.body_kind = "none", !.body = <<>>]
              = [WithMethod("GET").response EXCEPT !.body_kind = "none", !.body = <<>>]
        /\ resp.response.body_kind = "none"
        /\ resp.response.body = <<>>

AskedRange(form) == Served /\ rangeIn.form = form

\* C12 (as stated): for every file size N and every Range: bytes=s-e with
\* 0 <= s <= e < N, e = 0 included, the response is 206 with Content-Length
\* e-s+1 and Content-Range: bytes s-e/N, and the body is the e-s+1 bytes of
\* the file from offset s on.
C12_ClosedRangeExact ==
    (/\ AskedRange("closed")
     /\ rangeIn.s <= rangeIn.e
     /\ rangeIn.e < fileSize) =>
        /\ resp.response.status = 206
        /\ resp.response.content_length = rangeIn.e - rangeIn.s + 1
        /\ resp.response.content_range = <<rangeIn.s, rangeIn.e, fileSize>>
        /\ req.raw.method = "GET" =>
              resp.response.body
                  = SubSeq(FileBytes(fileSize), rangeIn.s + 1, rangeIn.e + 1)

\* C13 (as stated): for every file size N and every Range: bytes=-k the
\* effective range is [max(0, N-k), N-1]: 206 with that Content-Range when
\* it is not empty, 416 when its end is below its start (k = 0 or N = 0).
C13_SuffixRangeExact ==
    AskedRange("suffix") =>
        LET start == IF fileSize > rangeIn.k THEN fileSize - rangeIn.k ELSE 0
            end   == fileSize - 1
        IN  IF end < start \/ rangeIn.k = 0
            THEN resp.response.status = 416
            ELSE /\ resp.response.status = 206
                 /\ resp.response.content_range = <<start, end, fileSize>>
                 /\ resp.response.content_length = end - start + 1
                 /\ req.raw.method = "GET" =>
                       resp.response.body
                           = SubSeq(FileBytes(fileSize), start + 1, end + 1)

\* C14 (as stated): for every file size N and every range request whose
\* start s is at or beyond N, the response is 416 with
\* Content-Range: bytes */N, Content-Length: 0 and no body bytes.
C14_UnsatisfiableStart ==
    (/\ Served
     /\ rangeIn.form \in {"closed", "open"}
     /\ rangeIn.s >= fileSize) =>
        /\ resp.response.status = 416
        /\ resp.response.content_range
              = send_range_not_satisfiable(fileSize).content_range
        /\ resp.response.content_length = 0
        /\ resp.response.body_kind = "none"
        /\ resp.response.body = <<>>

(***************************************************************************)
(* The catalog build: claims                                               *)
(***************************************************************************)
\* the listed file is readable and not under videos/
Catalogable(file) ==
    file.readable /\ ~Contains(file.path, VideosDir)

\* C19 (as stated): a build over a listing in which some files are
\* unreadable succeeds and yields a catalog with an entry for every other
\* readable file that is not excluded, wherever the failing files stand in
\* the listing.
C19_FailureKeepsOthers ==
    catalog.built =>
        \A i \in 1..Len(listing) :
            Catalogable(listing[i]) =>
                /\ catalog.serving
                /\ cache_lookup(catalog.head, listing[i].path) # NoNode

\* C20 (as stated): after a build or a refresh no entry of the catalog has
\* a path under videos/, whatever the order of the listing, and a request
\* for such a file is answered without ETag and Last-Modified.
C20_NoVideosEntry ==
    /\ catalog.built =>
          \A i \in 1..Len(catalog.head) :
              ~Contains(catalog.head[i].path, VideosDir)
    /\ (Served /\ Contains(req.raw.path, VideosDir)
           /\ resp.response.status \in {200, 206, 304}) =>
          /\ resp.response.etag = NoStr
          /\ resp.response.last_modified = NoStr

(***************************************************************************)
(* The parser: claims                                                      *)
(***************************************************************************)
\* the place of the request line: the first line that is not empty
RequestLineAt ==
    CHOOSE i \in 1..Len(buffer) :
        /\ buffer[i].kind # "blank"
        /\ \A j \in 1..(i - 1) : buffer[j].kind = "blank"

\* the header block ends at the first empty line after the request line
HeaderBlockEnd ==
    IF \E i \in (RequestLineAt + 1)..Len(buffer) : buffer[i].kind = "blank"
    THEN CHOOSE i \in (RequestLineAt + 1)..Len(buffer) :
             /\ buffer[i].kind = "blank"
             /\ \A j \in (RequestLineAt + 1)..(i - 1) : buffer[j].kind # "blank"
    ELSE Len(buffer) + 1

\* a Host header stands in the header block
HasHostHeader ==
    \E i \in (RequestLineAt + 1)..(HeaderBlockEnd - 1) :
        buffer[i].kind = "header" /\ buffer[i].name = "Host"

\* the status the parser is to answer, 0 when it is to return a Request
ParserStatus ==
    IF \A i \in 1..Len(buffer) : buffer[i].kind = "blank" THEN 400
    ELSE IF Len(TokensOf(buffer[RequestLineAt])) < 3 THEN 400
    ELSE IF TokensOf(buffer[RequestLineAt])[3] \notin {"HTTP/1.0", "HTTP/1.1"}
    THEN 505
    ELSE IF TokensOf(buffer[RequestLineAt])[3] = "HTTP/1.1" /\ ~HasHostHeader
    THEN 400
    ELSE 0

\* C17 (as stated): a request line without method, target or version is
\* answered 400; otherwise a version other than HTTP/1.0 and HTTP/1.1 is
\* answered 505; otherwise an HTTP/1.1 request without Host header is
\* answered 400; otherwise a Request is returned.  On a parse error one
\* error response is written, nothing reaches the pipeline and the
\* transport is closed.
C17_ParserOutcome ==
    (Served /\ buffer # NoBuffer) =>
        IF ParserStatus = 0
        THEN "parse" \in resp.reached
        ELSE /\ resp.reached = {}
             /\ resp.response.status = ParserStatus
             /\ resp.response.body_kind = "error_page"
             /\ ~sockOpen

(***************************************************************************)
(* The tree: claims                                                        *)
(***************************************************************************)
\* the places of the nodes reachable from curr through left and right
RECURSIVE ReachFrom(_, _)
ReachFrom(tree, curr) ==
    IF curr = 0 THEN {}
    ELSE {curr} \cup ReachFrom(tree, tree[curr].left)
                \cup ReachFrom(tree, tree[curr].right)

Reachable(tree) == IF tree = <<>> THEN {} ELSE ReachFrom(tree, 1)

\* no reachable node has a zero hash and no two have the same path_hash
TreeUniqueNonZero(tree) ==
    /\ \A i \in Reachable(tree) :
          /\ tree[i].path_hash # <<0, 0>>
          /\ tree[i].file_hash # 0
    /\ \A i, j \in Reachable(tree) :
          i # j => tree[i].path_hash # tree[j].path_hash

\* this step hands add_node a readable file whose path_hash is in the tree
AddsPresentHash ==
    /\ "head" \in DOMAIN catalog
    /\ Len(listing') = Len(listing) + 1
    /\ listing'[Len(listing')].readable
    /\ \E i \in Reachable(catalog.head) :
          catalog.head[i].path_hash = hashPath(listing'[Len(listing')].path)

\* C21: after any sequence of add_node/insert_node calls every reachable
\* entry has a non-zero path_hash and a non-zero file_hash, no two reachable
\* entries have the same path_hash, and inserting a node whose path_hash is
\* present leaves the tree as it was.
C21_UniqueNonZeroHashes ==
    /\ []("head" \in DOMAIN catalog => TreeUniqueNonZero(catalog.head))
    /\ [][AddsPresentHash => catalog'.head = catalog.head]_vars

\* "/ab" is in the tree, "/bA" was handed to add_node and dropped, and a
\* third file went in after it
C21_Witness ==
    /\ "head" \in DOMAIN catalog
    /\ Len(listing) = 3
    /\ \A i \in 1..3 : listing[i].readable
    /\ listing[1].path = SERVER_PATH \o WebpagesDir \o <<"/", "a", "b">>
    /\ listing[2].path = SERVER_PATH \o WebpagesDir \o <<"/", "b", "A">>
    /\ hashPath(listing[1].path) = hashPath(listing[2].path)
    /\ Len(catalog.head) = 2
    /\ Reachable(catalog.head) = {1, 2}

\* a is the smaller of two unsigned 32-bit values
Below(a, b) == a[1] < b[1] \/ (a[1] = b[1] /\ a[2] < b[2])

\* every node has only smaller path_hash values in its left subtree and only
\* larger ones in its right subtree
IsSearchTree(tree) ==
    \A i \in Reachable(tree) :
        /\ \A j \in ReachFrom(tree, tree[i].left) :
              Below(tree[j].path_hash, tree[i].path_hash)
        /\ \A j \in ReachFrom(tree, tree[i].right) :
              Below(tree[i].path_hash, tree[j].path_hash)

\* the entry of the tree whose path_hash is tag, NoNode when there is none
EntryOfTag(tree, tag) ==
    IF \E i \in Reachable(tree) : tree[i].path_hash = tag
    THEN tree[CHOOSE i \in Reachable(tree) : tree[i].path_hash = tag]
    ELSE NoNode

\* a lookup has returned in this state
LookedUp == "tag" \in DOMAIN resp

\* C32: after any sequence of insertions the tree is a binary search tree on
\* path_hash; lookupNode(h) returns the entry whose path_hash is h when the
\* tree holds one and NULL otherwise, and leaves the tree as it was.
C32_SearchTreeLookup ==
    /\ []("head" \in DOMAIN catalog =>
            /\ IsSearchTree(catalog.head)
            /\ \A tag \in LookupTags :
                  lookupNode(catalog.head, tag) = EntryOfTag(catalog.head, tag))
    /\ [][resp' # resp =>
            /\ resp'.node = EntryOfTag(catalog.head, resp'.tag)
            /\ catalog' = catalog]_vars

\* three nodes, the third two links below the root, and a lookup that walked
\* down to it
C32_Witness ==
    /\ LookedUp
    /\ Reachable(catalog.head) = {1, 2, 3}
    /\ 3 \in {catalog.head[2].left, catalog.head[2].right}
    /\ resp.node = catalog.head[3]

\* the path the request of this state resolves to
RequestedPath == resolve_request_path(req.raw.path, webroot)

\* the ETag header of the file the request of this state asks for
RequestedETag ==
    ETagHeader(hashFile(EntryAt(BuildFs(listing), RequestedPath).bytes))

\* C33: cache_lookup returns an entry only if the entry's path is the
\* requested path; the ETag a response carries is the one of the requested
\* file, and a 304 answers an If-None-Match that holds the ETag of the
\* requested file, also when two paths have the same path_hash.
C33_ValidatorsOfRequestedFile ==
    (Served /\ catalog.built) =>
        /\ cache_lookup(catalog.head, RequestedPath) # NoNode =>
              cache_lookup(catalog.head, RequestedPath).path = RequestedPath
        /\ resp.response.etag # NoStr => resp.response.etag = RequestedETag
        /\ resp.response.status = 304 => req.raw.if_none_match = RequestedETag

\* path begins with root
UnderRoot(path, root) ==
    /\ Len(path) >= Len(root)
    /\ SubSeq(path, 1, Len(root)) = root

\* C22: every catalog entry's path lies under g_config.webroot, and the
\* path resolve_request_path gives for the entry's target under that
\* webroot is the key the build stored the entry under, for any configured
\* webroot.
C22_EntriesUnderWebroot ==
    catalog.built =>
        \A i \in Reachable(catalog.head) :
            LET node == catalog.head[i]
            IN  /\ UnderRoot(node.path, g_config.webroot \o WebpagesDir)
                /\ cache_lookup(catalog.head,
                        resolve_request_path(TargetOf(node), g_config.webroot))
                     = node

\* C23: for every byte sequence (bytes 0..255) the file_hash hashFile
\* computes is 5381 plus the sum of the bytes, cut to 32 bits, so that two
\* builds over byte-identical files give the same file_hash and ETag.
C23_HashFileIsByteSum ==
    ("head" \in DOMAIN catalog /\ listing # <<>> /\ listing[1].readable) =>
        /\ catalog.head # <<>>
        /\ catalog.head[1].file_hash = 5381 + SumBytes(listing[1].bytes)

(***************************************************************************)
(* Shutdown, refresh and the order of the work: claims                     *)
(***************************************************************************)
\* C24: once the shutdown flag is set the acceptor leaves its loop, the
\* queued and running requests complete, the workers exit and main returns,
\* whatever the clients do.
C24_ShutdownTerminates ==
    g_shutdown ~> (/\ mpc = "done"
                   /\ work_queue = <<>>
                   /\ submitted = executed
                   /\ \A w \in Workers : wpc[w] = "exited")

\* the main thread is past its accept loop
LeftLoop ==
    mpc \in {"shutdown_wait", "shutdown_wait_blocked", "destroy", "join",
             "cache_free", "done"}

\* C25 as stated: in every interleaving of the shutdown signal with the
\* acceptor loop, no accept() and no threadpool_add_work happens after the
\* shutdown flag has been set.
C25_NoAcceptAfterFlag ==
    [][g_shutdown => /\ nConn' = nConn
                     /\ \A c \in Conns : ~SubmitStep(c)]_vars

\* C25, amended: a loop test that reads the flag set leaves the loop, and
\* once the main thread is past the loop no accept() and no
\* threadpool_add_work happens.
C25_NoAcceptAfterLoopExit ==
    /\ [][(mpc = "loop" /\ g_shutdown /\ mpc' # "loop") => LeftLoop']_vars
    /\ [][LeftLoop => /\ LeftLoop'
                      /\ nConn' = nConn
                      /\ Len(work_queue') <= Len(work_queue)
                      /\ \A c \in Conns : ~SubmitStep(c)]_vars

\* the flag was read at the loop test while connections could still come,
\* and accepted work is still queued
C25_Witness ==
    /\ g_shutdown
    /\ mpc = "shutdown_wait"
    /\ nConn < MaxConn
    /\ work_queue # <<>>

\* C26: a refresh builds the new catalog first and then replaces the
\* published handle in one step: until main frees it at exit, cache_tree
\* designates a complete catalog that has not been freed, and a rebuild that
\* fails leaves the previous catalog published.
C26_PublishedCatalogLive ==
    /\ [](mpc # "done" => (cache_tree # NullTree /\ cache_tree \notin treeFreed))
    /\ [][(mpc = "refresh_init" /\ mpc' # mpc /\ nTrees' = nTrees)
             => (cache_tree' = cache_tree /\ cache_tree' \notin treeFreed')]_vars

\* worker w takes connection c off the queue in this step
Dequeues(w, c) ==
    /\ wpc[w] = "lock"
    /\ wpc'[w] = "exec"
    /\ witem'[w].conn = c

\* C27: work items are dequeued in the order they were accepted (connections
\* are numbered in the order of their accept): the queue holds them in that
\* order, and the item a worker takes was accepted before every item that
\* stays queued and after every item taken earlier.
C27_FifoDequeue ==
    /\ [](\A i, j \in 1..Len(work_queue) :
             i < j => work_queue[i].conn < work_queue[j].conn)
    /\ [][\A w \in Workers, c \in Conns :
            Dequeues(w, c) =>
               /\ connState[c] = "queued"
               /\ \A d \in Conns :
                     /\ connState[d] = "queued" => c <= d
                     /\ connState[d] \in {"running", "closed_by_worker"} => d < c]_vars

\* two accepted items wait in the queue, the earlier one at the head
C27_Witness ==
    /\ Len(work_queue) = 2
    /\ work_queue[1].conn = 1
    /\ work_queue[2].conn = 2
    /\ \E w \in Workers : wpc[w] = "lock"

\* the workers that hold the item of connection c
Holders(c) == {w \in Workers : witem[w].conn = c}

\* C28: each accepted item is executed exactly once by exactly one worker:
\* a queued item is linked once and held by no worker, a running item is off
\* the queue and in the handler of exactly one worker, an item is taken only
\* from the queue, and it is released (witem cleared) only after the handler
\* returned and never taken again.
C28_ExactlyOnce ==
    /\ [](\A c \in Conns :
            /\ connState[c] = "queued" =>
                  /\ Cardinality({i \in 1..Len(work_queue) : work_queue[i].conn = c}) = 1
                  /\ Holders(c) = {}
            /\ connState[c] = "running" =>
                  /\ \A i \in 1..Len(work_queue) : work_queue[i].conn # c
                  /\ Cardinality(Holders(c)) = 1
                  /\ \A w \in Holders(c) : wpc[w] = "exec"
            /\ connState[c] = "closed_by_worker" =>
                  /\ \A i \in 1..Len(work_queue) : work_queue[i].conn # c
                  /\ \A w \in Holders(c) : wpc[w] = "finish")
    /\ [][\A w \in Workers, c \in Conns :
            /\ Dequeues(w, c) => connState[c] = "queued"
            /\ (witem[w].conn = c /\ witem'[w].conn # c)
                  => connState[c] = "closed_by_worker"]_vars

\* both workers run the handler, each on its own item, before any handler
\* has returned
C28_Witness ==
    /\ \A w \in Workers : wpc[w] = "exec"
    /\ Cardinality({witem[w].conn : w \in Workers}) = NumThreads
    /\ completed_work = 0

(***************************************************************************)
(* Failed writes and error pages: claims                                   *)
(***************************************************************************)
\* a body write of the response of this state failed
BodyWriteFailed ==
    /\ Served
    /\ req.raw.method = "GET"
    /\ resp.response.status \in {200, 206}
    /\ req.net.fail_at > 0
    /\ (req.net.fail_at - 1) * BUFFER_SIZE < fileSize

\* C29: when a body write fails with ECONNRESET or EPIPE send_file_response
\* returns 0, with any other errno it returns -1; in both cases nothing is
\* read or written after the failed write (the body on the wire is what the
\* earlier writes carried) and the connection is closed, whatever the
\* request said about keep-alive.
C29_BrokenWriteEndsResponse ==
    BodyWriteFailed =>
        /\ resp.response.result =
               (IF req.net.errno \in {"ECONNRESET", "EPIPE"} THEN 0 ELSE -1)
        /\ resp.response.body =
               SubSeq(FileBytes(fileSize), 1, (req.net.fail_at - 1) * BUFFER_SIZE)
        /\ ~sockOpen

\* the second write of a keep-alive response failed with EPIPE after the
\* first buffer went out
C29_Witness ==
    /\ BodyWriteFailed
    /\ req.net.fail_at = 2
    /\ req.net.errno = "EPIPE"
    /\ req.raw.connection = KeepAliveStr
    /\ resp.response.result = 0
    /\ Len(resp.response.body) = BUFFER_SIZE
    /\ Len(resp.response.body) < resp.response.content_length

\* the reason phrase of each error status the server answers with
ReasonPhrase ==
    [code \in {400, 403, 404, 416, 500, 501, 505} |->
        CASE code = 400 -> "Bad Request"
          [] code = 403 -> "Forbidden"
          [] code = 404 -> "Not Found"
          [] code = 416 -> "Range Not Satisfiable"
          [] code = 500 -> "Internal Server Error"
          [] code = 501 -> "Not Implemented"
          [] code = 505 -> "HTTP Version Not Supported"]

\* the request of this state was answered with an error status
AnsweredError == Served /\ resp.response.status >= 400

\* C30: the body of an error response depends on the status alone: it is
\* the fixed page made of the numeric code, its reason phrase and the
\* signature Snap/0.4, whatever the method, the target, the headers and the
\* transport of the request, so two requests that end in the same error
\* status get the same body.
C30_ErrorBodyByStatusOnly ==
    AnsweredError =>
        /\ resp.response.status \in DOMAIN ReasonPhrase
        /\ resp.response.body =
              <<"<html>\n<head><title>", FormatUnsigned(resp.response.status),
                " ", ReasonPhrase[resp.response.status],
                "</title></head>\n<body>\n<h1>",
                FormatUnsigned(resp.response.status), " ",
                ReasonPhrase[resp.response.status],
                "</h1>\n<hr>\n<p>Snap/0.4</p>\n</body>\n</html>\n">>

\* a request for a target other than "/" on the TLS transport, with a Host
\* header, answered 404
C30_Witness ==
    /\ AnsweredError
    /\ resp.response.status = 404
    /\ req.ssl
    /\ req.raw.host # NoStr
    /\ req.raw.path # <<"/">>

(***************************************************************************)
(* Conditional requests: claims                                            *)
(***************************************************************************)
\* the catalog node whose path is the resolved target of the request
CondEntry ==
    LET full == resolve_request_path(req.raw.path, webroot)
        tree == CondWorlds[world].tree
    IN  IF \E i \in 1..Len(tree) : tree[i].path = full
        THEN tree[CHOOSE i \in 1..Len(tree) : tree[i].path = full]
        ELSE NoNode

\* a is b, a proper prefix of b, or smaller than b in the first byte in
\* which the two differ
LexLeq(a, b) ==
    \/ Len(a) <= Len(b) /\ SubSeq(b, 1, Len(a)) = a
    \/ \E i \in 1..Len(a) :
          /\ i <= Len(b)
          /\ SubSeq(a, 1, i - 1) = SubSeq(b, 1, i - 1)
          /\ Code(a[i]) < Code(b[i])

\* If-None-Match carries the ETag of the entry of the target
CondETagMatch ==
    /\ CondEntry # NoNode
    /\ req.raw.if_none_match = ETagHeader(CondEntry.file_hash)

\* the entry of the target has a last_modified string that is at most the
\* value of If-Modified-Since
CondNotModified ==
    /\ CondEntry # NoNode
    /\ CondEntry.last_modified # NoStr
    /\ req.raw.if_modified_since # NoStr
    /\ LexLeq(CondEntry.last_modified, req.raw.if_modified_since)

\* C31 (as stated): a GET or HEAD with a valid path and no matching ETag is
\* answered 304 exactly when the path has a catalog entry with a
\* last_modified string, the request has If-Modified-Since, and last_modified
\* is at most that value in byte-wise string order; the file being there or
\* not makes no difference.
C31_NotModifiedIff ==
    (/\ Served
     /\ WellFormed
     /\ validate_path(req.raw.path)
     /\ ~CondETagMatch) =>
        (resp.response.status = 304 <=> CondNotModified)

\* C31 (amended): the same for a request that is not redirected to TLS, that
\* is, one that does not carry Upgrade-Insecure-Requests: 1 on the cleartext
\* transport.
C31_NotModifiedIffNotRedirected ==
    (/\ Served
     /\ WellFormed
     /\ validate_path(req.raw.path)
     /\ ~CleartextUpgrade
     /\ ~CondETagMatch) =>
        (resp.response.status = 304 <=> CondNotModified)

\* a 304 for "a" after the file was deleted, on a date that is later in
\* string order than the last_modified of the entry
C31_Witness ==
    /\ Served
    /\ world = 2
    /\ req.raw.path = <<"/", "a">>
    /\ req.raw.if_modified_since = Tue05
    /\ req.raw.if_none_match = NoStr
    /\ ~CleartextUpgrade
    /\ resp.response.status = 304

(***************************************************************************)
(* Descriptors: claims                                                     *)
(***************************************************************************)
\* the connection is in the queue or in the hands of a worker that has not
\* returned from the handler
InFlight(c) ==
    \/ \E i \in 1..Len(work_queue) : work_queue[i].conn = c
    \/ \E w \in Workers : wpc[w] = "exec" /\ witem[w].conn = c

C35_PoolCounters ==
    /\ queue_size = Len(work_queue)
    /\ work_queue = <<>> <=> work_queue_tail = NoItem
    /\ work_queue # <<>> => work_queue_tail = work_queue[Len(work_queue)]
    /\ 0 <= active_workers
    /\ active_workers <= NumThreads
    /\ Cardinality(submitted) = queue_size + active_workers + completed_work

\* the first of two queued items was dequeued and is being handled while the
\* second waits
C35_Witness ==
    /\ Len(work_queue) = 1
    /\ work_queue[1].conn = 2
    /\ work_queue_tail.conn = 2
    /\ active_workers = 1
    /\ completed_work = 0

(***************************************************************************)
(* The body on the wire: claims                                            *)
(***************************************************************************)
\* a GET was answered 200 or 206, no write failed and send_file_response
\* returned 0
BodyCompleted ==
    /\ Served
    /\ req.raw.method = "GET"
    /\ resp.response.status \in {200, 206}
    /\ resp.response.delivered
    /\ req.net.fail_at = 0
    /\ resp.response.result = 0

\* C36: when send_file_response completes a 200/206 to a GET without
\* reporting a transport error, the bytes the transport took are the
\* Content-Length bytes of the file from start to end, in order, also when a
\* write takes fewer bytes than it was given or a read returns fewer bytes
\* than were asked for.
C36_BodyIsFileSlice ==
    BodyCompleted =>
        /\ Len(resp.response.body) = resp.response.content_length
        /\ resp.response.body = FileBytes(fileSize)

(***************************************************************************)
(* The refresh flag: claims                                                *)
(***************************************************************************)
\* C37: every setting of the refresh flag is eventually followed by a
\* catalog rebuild that starts after it, unless shutdown intervenes; a
\* SIGUSR1 that arrives while the acceptor waits for the pool or rebuilds
\* the catalog is not lost when the acceptor clears the flag.
C37_RefreshNotLost == refreshOwed ~> (~refreshOwed \/ g_shutdown \/ LeftLoop)

(***************************************************************************)
(* threadpool_wait: claims                                                 *)
(***************************************************************************)
\* the main thread is inside pthread_cond_wait(&pool->work_done, ...)
WaiterBlocked == mpc \in {"refresh_wait_blocked", "shutdown_wait_blocked"}

\* the main thread is in threadpool_wait: about to test its loop condition,
\* or blocked
InThreadpoolWait ==
    mpc \in {"refresh_wait", "refresh_wait_blocked",
             "shutdown_wait", "shutdown_wait_blocked"}

\* C38: a call to threadpool_wait returns in the end when every handler
\* terminates (the caller is the only thread that submits work): the waiter
\* is never left blocked while the queue is empty and active_workers is 0,
\* and both the call before the refresh and the call before the shutdown
\* come back.
C38_WaitReturns ==
    /\ [](WaiterBlocked => WaitMustBlock(work_queue, active_workers))
    /\ InThreadpoolWait ~> ~InThreadpoolWait

\* the waiter is blocked while one item is being handled and another one
\* is still queued
C38_Witness ==
    /\ WaiterBlocked
    /\ active_workers = 1
    /\ Len(work_queue) = 1

====
